---- MODULE Spec2Model ----
(***************************************************************************)
(* Zoro command orchestration engine: command compiler, policy engine,     *)
(* mandate lifecycle, orchestrator tick and conditional settlement queue.  *)
(* Money is in hundredths of a USDC (cents); time is in minutes.           *)
(***************************************************************************)
EXTENDS Integers, Sequences, FiniteSets, TLC

VARIABLES
    now,          \* wall clock, minutes since the start of day 0 (Date.now())
    config,       \* AppConfig fields the engine reads
    agentMode,    \* "none": no AgentReasoner set; "rules": no model; "llm": model present
    world,        \* the deployment explored: scopes, lines, and what its environment does
    docLines,     \* the raw command lines the document lists (one document serves all scopes)
    commands,     \* table commands, keyed by <<docId, cmdId>>; NULL = no row
    intents,      \* table ap2_intents
    carts,        \* table ap2_cart_mandates
    payMandates,  \* table ap2_payment_mandates: set of <<docId, cmdId, toolName, price>>
    receipts,     \* table ap2_receipts, per command, in insertion order
    ledger,       \* table spend_ledger, per command, in insertion order
    jobs,         \* table encrypted_jobs, keyed by command
    audit,        \* audit lines written for a command, in order
    reported,     \* Orchestrator.reportedInputIssues
    needsInfo,    \* number of NEEDS_INFO audit lines written
    rules,        \* RecurringScheduler.rules
    tick,         \* per tick invocation: position and locals of Orchestrator.tick
    sigLog,       \* history: every signature check made by requestApproval
    needsApproval,\* history: requiresApproval as evaluated at ingestion
    settlements,  \* external effect: sendSettlement transfers issued, per command
    swaps,        \* external effect: swaps issued, per command
    toolCalls,    \* external effect: x402Fetch invocations, per command
    x402Receipts, \* table x402_receipts, per command, in insertion order
    ops,          \* approval/abort requests and clock advances so far (bounds the exploration)
    pin,          \* function harnesses: the arguments under evaluation
    pout          \* function harnesses: what was returned for pin

vars == <<now, config, agentMode, world, docLines, commands, intents, carts, payMandates,
          receipts, ledger, jobs, audit, reported, needsInfo, rules, tick, sigLog,
          needsApproval, settlements, swaps, toolCalls,
                   x402Receipts, ops, pin, pout>>

orchVars == <<now, config, agentMode, world, docLines, commands, intents, carts, payMandates,
              receipts, ledger, jobs, audit, reported, needsInfo, rules, tick, sigLog,
              needsApproval, settlements, swaps, toolCalls, x402Receipts, ops>>

NULL == "null"

(***************************************************************************)
(* Bounds of the exploration.                                              *)
(***************************************************************************)
NumTicks == 2        \* tick invocations that may be in flight together
MaxOps == 2          \* approval and abort requests served
MaxClock == 1        \* clock advances

Procs == 1..NumTicks

(***************************************************************************)
(* Program constants.                                                      *)
(***************************************************************************)
CartWindowMin == 5           \* buildCartMandate: 5 * 60 * 1000 ms
DayMin == 1440               \* startOfUtcDay: minutes in a UTC day
PolicyMaxSlippageBps == 100  \* evaluatePolicy: slippageBps > 100
ReceiptMaxSlippageBps == 200 \* DEFI receipt riskControls.policyMaxSlippage
VendorRiskPrice == 25        \* chooseToolPlan / tool catalog: 0.25
CompliancePrice == 50        \* chooseToolPlan / tool catalog: 0.5
PriceCheckPrice == 10        \* executeTreasurySwap: 0.1
SwapResearchBudget == 15     \* executeTreasurySwap: budgetUsdc 0.15

Docs == {"docA", "docB"}

Terminal == {"DONE", "ABORTED", "FAILED"}

(***************************************************************************)
(* Sequence helpers.                                                       *)
(***************************************************************************)
Range(s) == {s[i] : i \in 1..Len(s)}


(***************************************************************************)
(* Command compiler (src/src/commands.ts).  A raw line is described by its *)
(* surface grammar and the lexemes of its fields; numbers are kept as the  *)
(* text the operator typed until Number() converts them.                   *)
(***************************************************************************)
NumberOf(lexeme) ==          \* Number(text), in hundredths
    CASE lexeme = "1" -> 100
      [] lexeme = "1.0" -> 100
      [] lexeme = "2" -> 200
      [] lexeme = "2.0" -> 200
      [] lexeme = "3" -> 300
      [] lexeme = "0.5" -> 50
      [] lexeme = "1.5" -> 150
      [] lexeme = "30" -> 3000
      [] lexeme = "50" -> 5000
      [] lexeme = "150" -> 15000
      [] lexeme = "200" -> 20000
      [] lexeme = "250" -> 25000
      [] OTHER -> 0

ToLowerCase(w) ==            \* String.prototype.toLowerCase on the words used
    CASE w = "ACME" -> "acme"
      [] w = "Acme" -> "acme"
      [] w = "BOLT" -> "bolt"
      [] w = "0xAb" -> "0xab"
      [] w = "0xAB" -> "0xab"
      [] w = "WETH" -> "weth"
      [] w = "DAILY" -> "daily"
      [] OTHER -> w

ToUpperCase(w) ==            \* String.prototype.toUpperCase on the words used
    CASE w = "Acme" -> "ACME"
      [] w = "acme" -> "ACME"
      [] w = "daily" -> "DAILY"
      [] OTHER -> w

NoField == "undefined"       \* an absent text field
NoNum == -1                  \* an absent numeric field (undefined)

numToString(n) ==               \* Number.prototype.toString of a number kept in hundredths
    CASE n = 50 -> "0.5"
      [] n = 100 -> "1"
      [] n = 150 -> "1.5"
      [] n = 200 -> "2"
      [] n = 300 -> "3"
      [] n = 3000 -> "30"
      [] n = 5000 -> "50"
      [] n = 15000 -> "150"
      [] n = 20000 -> "200"
      [] n = 25000 -> "250"
      [] OTHER -> "0"

DateParse(text) ==           \* Date.parse of an RFC3339 UTC text, in minutes; -1 = NaN
    CASE text = "T00:01Z" -> 1
      [] text = "T00:07Z" -> 7
      [] OTHER -> -1

\* The lines an operator may write.  surface: "DW" structured, "NL" natural language.
RawLines == [
  l1 |-> [surface |-> "DW", verb |-> "PAY_VENDOR", vendor |-> "ACME", amount |-> "2",
          to |-> "0xAb", maxTotal |-> "1", slippage |-> NoField, slipUnit |-> NoField,
          maxSpend |-> NoField, unlockAt |-> NoField, frequency |-> NoField],
  l2 |-> [surface |-> "NL", verb |-> "pay", vendor |-> "Acme", amount |-> "2.0",
          to |-> "0xAb", maxTotal |-> "1.0", slippage |-> NoField, slipUnit |-> NoField,
          maxSpend |-> NoField, unlockAt |-> NoField, frequency |-> NoField],
  l3 |-> [surface |-> "DW", verb |-> "PAY_VENDOR", vendor |-> "BOLT", amount |-> "200",
          to |-> "0xAb", maxTotal |-> NoField, slippage |-> NoField, slipUnit |-> NoField,
          maxSpend |-> NoField, unlockAt |-> NoField, frequency |-> NoField],
  l4 |-> [surface |-> "DW", verb |-> "TREASURY_SWAP", vendor |-> NoField, amount |-> "3",
          to |-> "WETH", maxTotal |-> NoField, slippage |-> "150", slipUnit |-> "",
          maxSpend |-> "30", unlockAt |-> NoField, frequency |-> NoField],
  l5 |-> [surface |-> "NL", verb |-> "swap", vendor |-> NoField, amount |-> "3",
          to |-> "WETH", maxTotal |-> NoField, slippage |-> "0.5", slipUnit |-> "%",
          maxSpend |-> "30", unlockAt |-> NoField, frequency |-> NoField],
  l6 |-> [surface |-> "DW", verb |-> "TREASURY_SWAP", vendor |-> NoField, amount |-> "3",
          to |-> "WETH", maxTotal |-> NoField, slippage |-> "250", slipUnit |-> "",
          maxSpend |-> "30", unlockAt |-> NoField, frequency |-> NoField],
  l7 |-> [surface |-> "DW", verb |-> "PRIVATE_PAYOUT", vendor |-> NoField, amount |-> "2",
          to |-> "0xAb", maxTotal |-> NoField, slippage |-> NoField, slipUnit |-> NoField,
          maxSpend |-> NoField, unlockAt |-> "T00:01Z", frequency |-> NoField],
  l8 |-> [surface |-> "NL", verb |-> "recurring", vendor |-> "Acme", amount |-> "2",
          to |-> "0xAb", maxTotal |-> NoField, slippage |-> NoField, slipUnit |-> NoField,
          maxSpend |-> NoField, unlockAt |-> NoField, frequency |-> "day"],
  l9 |-> [surface |-> "NL", verb |-> "pay", vendor |-> "Acme", amount |-> NoField,
          to |-> "0xAb", maxTotal |-> NoField, slippage |-> NoField, slipUnit |-> NoField,
          maxSpend |-> NoField, unlockAt |-> NoField, frequency |-> NoField],
  l10 |-> [surface |-> "DW", verb |-> "PAY_VENDOR", vendor |-> "ACME", amount |-> "2",
           to |-> "0xAb", maxTotal |-> "0.5", slippage |-> NoField, slipUnit |-> NoField,
           maxSpend |-> NoField, unlockAt |-> NoField, frequency |-> NoField],
  l11 |-> [surface |-> "NL", verb |-> "pay", vendor |-> "ACME", amount |-> "2",
           to |-> "0xAb", maxTotal |-> NoField, slippage |-> NoField, slipUnit |-> NoField,
           maxSpend |-> NoField, unlockAt |-> NoField, frequency |-> NoField] ]

LineIds == DOMAIN RawLines

ParseError == [kind |-> "ERROR", vendor |-> NoField, amountUsdc |-> NoNum, to |-> NoField,
               maxTotalUsdc |-> NoNum, slippageBps |-> NoNum, maxSpendUsdc |-> NoNum,
               unlockAt |-> NoField, frequency |-> NoField]

Opt(lexeme) == IF lexeme = NoField THEN NoNum ELSE NumberOf(lexeme)

PayVendor(vendor, amountUsdc, to, maxTotalUsdc) ==
    [kind |-> "PAY_VENDOR", vendor |-> vendor, amountUsdc |-> amountUsdc, to |-> to,
     maxTotalUsdc |-> maxTotalUsdc, slippageBps |-> NoNum, maxSpendUsdc |-> NoNum,
     unlockAt |-> NoField, frequency |-> NoField]

TreasurySwap(amountUsdc, slippageBps, maxSpendUsdc) ==
    [kind |-> "TREASURY_SWAP", vendor |-> NoField, amountUsdc |-> amountUsdc, to |-> "WETH",
     maxTotalUsdc |-> NoNum, slippageBps |-> slippageBps, maxSpendUsdc |-> maxSpendUsdc,
     unlockAt |-> NoField, frequency |-> NoField]

PrivatePayout(amountUsdc, to, unlockAt) ==
    [kind |-> "PRIVATE_PAYOUT", vendor |-> NoField, amountUsdc |-> amountUsdc, to |-> to,
     maxTotalUsdc |-> NoNum, slippageBps |-> NoNum, maxSpendUsdc |-> NoNum,
     unlockAt |-> unlockAt, frequency |-> NoField]

RecurringPay(vendor, amountUsdc, to, frequency) ==
    [kind |-> "RECURRING_PAY", vendor |-> vendor, amountUsdc |-> amountUsdc, to |-> to,
     maxTotalUsdc |-> NoNum, slippageBps |-> NoNum, maxSpendUsdc |-> NoNum,
     unlockAt |-> NoField, frequency |-> frequency]

\* Math.round of a number kept in hundredths
RoundHundredths(h) == (h + 50) \div 100

parseDwCommand(raw) ==
    IF raw.verb = "PAY_VENDOR" /\ raw.amount # NoField
    THEN PayVendor(raw.vendor, NumberOf(raw.amount), raw.to, Opt(raw.maxTotal))
    ELSE IF raw.verb = "PRIVATE_PAYOUT" /\ raw.amount # NoField /\ raw.unlockAt # NoField
    THEN PrivatePayout(NumberOf(raw.amount), raw.to, raw.unlockAt)
    ELSE IF raw.verb = "TREASURY_SWAP" /\ raw.amount # NoField /\ raw.slippage # NoField
            /\ raw.maxSpend # NoField /\ raw.slipUnit = ""
    THEN TreasurySwap(NumberOf(raw.amount), NumberOf(raw.slippage) \div 100,
                      NumberOf(raw.maxSpend))
    ELSE ParseError

parsePayVendorInbox(raw) ==
    IF raw.amount = NoField \/ raw.to = NoField THEN ParseError
    ELSE PayVendor(raw.vendor, NumberOf(raw.amount), raw.to, Opt(raw.maxTotal))

parseSwapInbox(raw) ==
    LET slippageBps ==
          IF raw.slippage = NoField THEN NoNum
          ELSE IF raw.slipUnit = "%" THEN RoundHundredths(NumberOf(raw.slippage) * 100)
          ELSE RoundHundredths(NumberOf(raw.slippage))
    IN IF raw.amount = NoField \/ slippageBps = NoNum \/ raw.maxSpend = NoField
          \/ raw.to # "WETH"
       THEN ParseError
       ELSE TreasurySwap(NumberOf(raw.amount), slippageBps, NumberOf(raw.maxSpend))

normalizeFrequency(f) ==
    CASE f \in {"day", "daily"} -> "daily"
      [] f \in {"week", "weekly"} -> "weekly"
      [] f \in {"month", "monthly"} -> "monthly"
      [] OTHER -> NoField

parseRecurringPayInbox(raw) ==
    IF raw.vendor = NoField \/ raw.amount = NoField \/ raw.to = NoField
       \/ normalizeFrequency(raw.frequency) = NoField
    THEN ParseError
    ELSE RecurringPay(ToUpperCase(raw.vendor), NumberOf(raw.amount), raw.to,
                      normalizeFrequency(raw.frequency))

parseInboxCommand(raw) ==
    CASE raw.verb = "pay" -> parsePayVendorInbox(raw)
      [] raw.verb = "swap" -> parseSwapInbox(raw)
      [] raw.verb = "recurring" -> parseRecurringPayInbox(raw)
      [] OTHER -> ParseError

parseUserCommand(raw) ==
    IF raw.surface = "DW" THEN parseDwCommand(raw) ELSE parseInboxCommand(raw)

\* The JSON object the classifier answered with; kind "NONE": no answer was obtained
\* (no model, rate-limit backoff, a failed input, a request or JSON.parse error).
Answer(kind, vendor, amountUsdc, to, maxTotalUsdc) ==
    [kind |-> kind, vendor |-> vendor, amountUsdc |-> amountUsdc, to |-> to,
     maxTotalUsdc |-> maxTotalUsdc]

NoAnswer == Answer("NONE", NoField, NoNum, NoField, NoNum)

\* what the classifier may answer for a line: nothing, UNKNOWN, or a payment with the
\* fields as written, with an amount of its own, or without the cap
LlmAnswers(raw) ==
    {NoAnswer, Answer("UNKNOWN", NoField, NoNum, NoField, NoNum)}
      \cup (IF raw.verb \in {"PAY_VENDOR", "pay"}
            THEN {Answer("PAY_VENDOR", raw.vendor, amount, raw.to, cap) :
                     amount \in {Opt(raw.amount), NumberOf("2")},
                     cap \in {Opt(raw.maxTotal), NoNum}}
            ELSE {})

\* LlmIntentParser.parseIntent on the answer: ParseError stands for null
parseIntent(answer) ==
    IF answer.kind = "PAY_VENDOR"
    THEN IF answer.vendor \in {NoField, ""} \/ answer.amountUsdc = NoNum
            \/ answer.to \in {NoField, ""}
         THEN ParseError
         ELSE PayVendor(ToUpperCase(answer.vendor), answer.amountUsdc, answer.to,
                        answer.maxTotalUsdc)
    ELSE ParseError

\* parseWithLlm: the classifier's result when it gives one, the grammar otherwise
parseWithLlm(raw, answer) ==
    IF parseIntent(answer) # ParseError THEN parseIntent(answer) ELSE parseUserCommand(raw)

\* Fixed field order; absent optional fields are left out.
buildCanonicalCommand(parsed) ==
    CASE parsed.kind = "PAY_VENDOR" ->
           <<"DW", "PAY_VENDOR", parsed.vendor, numToString(parsed.amountUsdc), "USDC", "TO",
             parsed.to>>
           \o (IF parsed.maxTotalUsdc # NoNum
               THEN <<"MAX_TOTAL", numToString(parsed.maxTotalUsdc)>> ELSE <<>>)
      [] parsed.kind = "TREASURY_SWAP" ->
           <<"DW", "TREASURY_SWAP", numToString(parsed.amountUsdc), "USDC", "TO", parsed.to,
             "SLIPPAGE", numToString(parsed.slippageBps * 100), "MAX_SPEND",
             numToString(parsed.maxSpendUsdc)>>
      [] parsed.kind = "PRIVATE_PAYOUT" ->
           <<"DW", "PRIVATE_PAYOUT", numToString(parsed.amountUsdc), "USDC", "TO", parsed.to,
             "AT", parsed.unlockAt>>
      [] parsed.kind = "RECURRING_PAY" ->
           <<"RECURRING", "PAY", parsed.vendor, numToString(parsed.amountUsdc), "USDC", "TO",
             parsed.to, "EVERY", ToUpperCase(parsed.frequency)>>
      [] OTHER -> <<"UNKNOWN_COMMAND">>

LowerAll(words) == [i \in 1..Len(words) |-> ToLowerCase(words[i])]

\* the id taken from the canonical text as written, without toLowerCase()
buildCmdIdCaseSensitive(parsed) == buildCanonicalCommand(parsed)

\* shortId("cmd", ...): the digest is taken to be collision free on the catalogue, so
\* the lower-cased canonical text stands for its own digest.
buildCmdIdFromParsed(parsed) == LowerAll(buildCanonicalCommand(parsed))

Parseable == {l \in LineIds : parseUserCommand(RawLines[l]) # ParseError}
Readings(l) == {parseWithLlm(RawLines[l], a) : a \in LlmAnswers(RawLines[l])} \ {ParseError}
CmdIds == {buildCmdIdFromParsed(parsed) : parsed \in UNION {Readings(l) : l \in LineIds}}
Keys == Docs \X CmdIds


(***************************************************************************)
(* Policy engine (src/unnamed/part_008, policy.ts).                        *)
(***************************************************************************)
Tool(name, price) == [toolName |-> name, priceUsdc |-> price]

RECURSIVE PlanCost(_)
PlanCost(tools) == IF tools = <<>> THEN 0 ELSE Head(tools).priceUsdc + PlanCost(Tail(tools))

chooseToolPlan(command) ==
    IF command.kind # "PAY_VENDOR" THEN <<>>
    ELSE <<Tool("vendor-risk", VendorRiskPrice), Tool("compliance-check", CompliancePrice)>>

\* maxTotalUsdc is used only when truthy: undefined and 0 both fall back to the default
perCmdLimit(cfg, command) ==
    IF command.kind = "PAY_VENDOR" /\ command.maxTotalUsdc # NoNum /\ command.maxTotalUsdc # 0
    THEN command.maxTotalUsdc
    ELSE cfg.X402_MAX_PER_CMD_USDC

PolicyContext(command, estimated, commandSpend, dailySpend, selectedTools) ==
    [command |-> command, estimatedToolCostUsdc |-> estimated,
     commandSpendUsdc |-> commandSpend, dailySpendUsdc |-> dailySpend,
     selectedTools |-> selectedTools]

\* the daily rule moved in front of the other rules
evaluatePolicyDailyFirst(cfg, context, nowMin) ==
    IF context.dailySpendUsdc + context.estimatedToolCostUsdc > cfg.X402_DAILY_LIMIT_USDC
    THEN "DAILY_LIMIT_REACHED"
    ELSE IF \E i \in 1..Len(context.selectedTools) :
               context.selectedTools[i].toolName \notin cfg.x402ToolAllowlist
    THEN "TOOL_NOT_ALLOWLISTED"
    ELSE IF context.estimatedToolCostUsdc > perCmdLimit(cfg, context.command)
    THEN "OVER_CMD_BUDGET"
    ELSE IF context.commandSpendUsdc + context.estimatedToolCostUsdc
              > perCmdLimit(cfg, context.command)
    THEN "SPEND_LIMIT_REACHED"
    ELSE IF context.command.kind = "TREASURY_SWAP"
            /\ context.command.slippageBps > PolicyMaxSlippageBps
    THEN "SLIPPAGE_TOO_HIGH"
    ELSE IF context.command.kind = "TREASURY_SWAP"
            /\ context.command.amountUsdc > context.command.maxSpendUsdc
    THEN "MAX_SPEND_EXCEEDED"
    ELSE IF context.command.kind = "PRIVATE_PAYOUT"
            /\ (DateParse(context.command.unlockAt) = -1
                \/ DateParse(context.command.unlockAt) <= nowMin)
    THEN "INVALID_UNLOCK_TIME"
    ELSE "OK"

\* the reason code of the PolicyDecision; allowed is reasonCode = "OK"
evaluatePolicy(cfg, context, nowMin) ==
    IF \E i \in 1..Len(context.selectedTools) :
          context.selectedTools[i].toolName \notin cfg.x402ToolAllowlist
    THEN "TOOL_NOT_ALLOWLISTED"
    ELSE IF context.estimatedToolCostUsdc > perCmdLimit(cfg, context.command)
    THEN "OVER_CMD_BUDGET"
    ELSE IF context.commandSpendUsdc + context.estimatedToolCostUsdc
              > perCmdLimit(cfg, context.command)
    THEN "SPEND_LIMIT_REACHED"
    ELSE IF context.dailySpendUsdc + context.estimatedToolCostUsdc > cfg.X402_DAILY_LIMIT_USDC
    THEN "DAILY_LIMIT_REACHED"
    ELSE IF context.command.kind = "TREASURY_SWAP"
            /\ context.command.slippageBps > PolicyMaxSlippageBps
    THEN "SLIPPAGE_TOO_HIGH"
    ELSE IF context.command.kind = "TREASURY_SWAP"
            /\ context.command.amountUsdc > context.command.maxSpendUsdc
    THEN "MAX_SPEND_EXCEEDED"
    ELSE IF context.command.kind = "PRIVATE_PAYOUT"
            /\ (DateParse(context.command.unlockAt) = -1
                \/ DateParse(context.command.unlockAt) <= nowMin)
    THEN "INVALID_UNLOCK_TIME"
    ELSE "OK"

Max(a, b) == IF a >= b THEN a ELSE b

\* a gate that opens at the lower of the two thresholds
requiresApprovalAboveEither(cfg, command) ==
    \/ command.amountUsdc > cfg.AUTO_RUN_UNDER_USDC
    \/ command.amountUsdc > cfg.X402_REQUIRE_APPROVAL_ABOVE_USDC

requiresApproval(cfg, command) ==
    command.amountUsdc > Max(cfg.AUTO_RUN_UNDER_USDC, cfg.X402_REQUIRE_APPROVAL_ABOVE_USDC)

(***************************************************************************)
(* Agent reasoner without a model (src/unnamed/part_008, agent.ts).        *)
(***************************************************************************)
fallbackPlan(command, budget) ==
    IF command.kind = "PAY_VENDOR"
    THEN LET first == IF VendorRiskPrice <= budget
                      THEN <<Tool("vendor-risk", VendorRiskPrice)>> ELSE <<>>
         IN IF PlanCost(first) + CompliancePrice <= budget
            THEN first \o <<Tool("compliance-check", CompliancePrice)>>
            ELSE first
    ELSE IF command.kind = "TREASURY_SWAP"
    THEN IF PriceCheckPrice <= budget THEN <<Tool("price-check", PriceCheckPrice)>> ELSE <<>>
    ELSE <<>>

(***************************************************************************)
(* Mandate authority (src/src/ap2/ap2.ts).                                 *)
(***************************************************************************)
buildIntentMandate(command, toolPlan, maxTotalUsdc, nowMin) ==
    [action |-> command.kind, maxTotalUsdc |-> maxTotalUsdc, toolPlan |-> toolPlan,
     createdAt |-> nowMin, status |-> "PENDING"]

\* the expiry counted from the moment the cart is built
buildCartMandateFromNow(intent, nowMin) ==
    [message |-> [maxTotalUsdc |-> intent.maxTotalUsdc,
                  toolDigest |-> intent.toolPlan,
                  expiresAt |-> nowMin + CartWindowMin],
     expiresAt |-> nowMin + CartWindowMin, createdAt |-> nowMin,
     signerAddress |-> NoField, signature |-> NoField]

\* createdAt -1 stands for a text Date.parse cannot read
buildCartMandate(intent, nowMin) ==
    LET expiresAt == IF intent.createdAt = -1 THEN nowMin + CartWindowMin
                     ELSE intent.createdAt + CartWindowMin
    IN [message |-> [maxTotalUsdc |-> intent.maxTotalUsdc,
                     toolDigest |-> intent.toolPlan,
                     expiresAt |-> expiresAt],
        expiresAt |-> expiresAt, createdAt |-> nowMin,
        signerAddress |-> NoField, signature |-> NoField]

\* recoverTypedDataAddress: a signature is the pair of the key that made it and the
\* message it was made over; over any other message it recovers an unrelated address
recoverTypedDataAddress(message, signature) ==
    IF signature.over = message THEN signature.by ELSE "0x00"

\* the two addresses compared as written
verifyAuthorizationSignatureCaseSensitive(mandate, signature, expectedSigner) ==
    LET signerAddress == recoverTypedDataAddress(mandate.message, signature)
    IN IF expectedSigner # "" /\ signerAddress # expectedSigner
       THEN [valid |-> FALSE, signerAddress |-> signerAddress]
       ELSE [valid |-> TRUE, signerAddress |-> signerAddress]

\* the comparison with the expected signer left out
verifyAuthorizationSignatureAnySigner(mandate, signature, expectedSigner) ==
    [valid |-> TRUE, signerAddress |-> recoverTypedDataAddress(mandate.message, signature)]

verifyAuthorizationSignature(mandate, signature, expectedSigner) ==
    LET signerAddress == recoverTypedDataAddress(mandate.message, signature)
    IN IF expectedSigner # "" /\ ToLowerCase(signerAddress) # ToLowerCase(expectedSigner)
       THEN [valid |-> FALSE, signerAddress |-> signerAddress]
       ELSE [valid |-> TRUE, signerAddress |-> signerAddress]

\* Repo.saveAp2CartMandate keeps signer, typed data, signature and createdAt only
CartRow(mandate) ==
    [signerAddress |-> mandate.signerAddress, message |-> mandate.message,
     signature |-> mandate.signature, createdAt |-> mandate.createdAt]

\* Repo.getAp2CartMandate rebuilds the mandate from the row: no expiresAt field
getAp2CartMandate(row) ==
    [signerAddress |-> row.signerAddress, message |-> row.message,
     signature |-> row.signature, createdAt |-> row.createdAt, expiresAt |-> NoNum]


(***************************************************************************)
(* Store (src/src/db/repo.ts).  A missing row is a record of blanks so     *)
(* that rows of one table always have one shape.                           *)
(***************************************************************************)
NoCommand == [rawCmd |-> NoField, parsed |-> ParseError, status |-> "NONE",
              lastError |-> NULL, createdSeq |-> 0]
NoIntent == [action |-> "NONE", maxTotalUsdc |-> NoNum, toolPlan |-> <<>>,
             createdAt |-> -1, status |-> "NONE"]
NoSignature == [by |-> NoField, over |-> [maxTotalUsdc |-> NoNum, toolDigest |-> <<>>,
                                          expiresAt |-> NoNum]]
NoCart == [signerAddress |-> NoField,
           message |-> [maxTotalUsdc |-> NoNum, toolDigest |-> <<>>, expiresAt |-> NoNum],
           signature |-> NoSignature, createdAt |-> -1]
NoJob == [status |-> "NONE", txHash |-> NULL, unlockAt |-> NoField, decrypted |-> FALSE]

Receipt(kind, code) == [kind |-> kind, code |-> code]
Spend(amount, at) == [amountUsdc |-> amount, createdAt |-> at]

\* Repo.updateCommandStatus: an UPDATE, so it changes nothing when the row is missing
updateCommandStatus(cmds, k, status, lastError) ==
    IF cmds[k].status = "NONE" THEN cmds
    ELSE [cmds EXCEPT ![k].status = status, ![k].lastError = lastError]

\* the row of an earlier receipt with the same content is replaced by the new row
addAp2ReceiptReplacing(rcpts, k, kind, code) ==
    [rcpts EXCEPT ![k] = Append(SelectSeq(@, LAMBDA r : r # Receipt(kind, code)),
                                Receipt(kind, code))]

\* a store that writes every receipt twice
addAp2ReceiptTwice(rcpts, k, kind, code) ==
    [rcpts EXCEPT ![k] = Append(Append(@, Receipt(kind, code)), Receipt(kind, code))]

\* Repo.addAp2Receipt: a plain INSERT; the table has no key, so the id a receipt
\* carries in its JSON never collides with an earlier row
addAp2Receipt(rcpts, k, kind, code) == [rcpts EXCEPT ![k] = Append(@, Receipt(kind, code))]

\* Repo.addX402Receipt: plain INSERT
addX402Receipt(tbl, k, toolName, retryStatus, costUsdc) ==
    [tbl EXCEPT ![k] = Append(@, [toolName |-> toolName, retryStatus |-> retryStatus,
                                  costUsdc |-> costUsdc])]

\* Response.ok
ResponseOk(status) == status >= 200 /\ status <= 299

\* DocService.appendAuditLine for a line that names a command
appendAuditLine(lines, k, label) == [lines EXCEPT ![k] = Append(@, label)]

\* Repo.addSpend
addSpend(lg, k, amount, at) == [lg EXCEPT ![k] = Append(@, Spend(amount, at))]

RECURSIVE SumSpend(_, _)
SumSpend(entries, since) ==
    IF entries = <<>> THEN 0
    ELSE (IF Head(entries).createdAt >= since THEN Head(entries).amountUsdc ELSE 0)
         + SumSpend(Tail(entries), since)

\* Repo.getCommandSpend
getCommandSpend(lg, k) == SumSpend(lg[k], 0)

RECURSIVE SumOver(_, _, _)
SumOver(lg, ks, since) ==
    IF ks = {} THEN 0
    ELSE LET k == CHOOSE x \in ks : TRUE
         IN SumSpend(lg[k], since) + SumOver(lg, ks \ {k}, since)

\* Repo.getDailySpend
getDailySpend(lg, docId, dayStart) ==
    SumOver(lg, {k \in Keys : k[1] = docId}, dayStart)

\* utils/time.ts startOfUtcDay
startOfUtcDay(nowMin) == nowMin - (nowMin % DayMin)

\* Repo.listCommandsByStatus(status) filtered to one scope, oldest first
RECURSIVE OrderBySeq(_, _)
OrderBySeq(cmds, ks) ==
    IF ks = {} THEN <<>>
    ELSE LET k == CHOOSE x \in ks : \A y \in ks : cmds[x].createdSeq <= cmds[y].createdSeq
         IN <<k[2]>> \o OrderBySeq(cmds, ks \ {k})

listCommandsByStatus(cmds, docId, status) ==
    OrderBySeq(cmds, {k \in Keys : k[1] = docId /\ cmds[k].status = status})

RowCount(cmds) == Cardinality({k \in Keys : cmds[k].status # "NONE"})

(***************************************************************************)
(* Orchestrator.ingestDocCommands (src/src/engine/orchestrator.ts).  The   *)
(* statements from getCommand to the status update of one line run without *)
(* a suspension point, so one line is one indivisible block.               *)
(***************************************************************************)
LineOrder == <<"l1", "l2", "l3", "l4", "l5", "l6", "l7", "l8", "l9", "l10", "l11">>

IntentCeiling(cfg, parsed) ==
    IF parsed.kind = "PAY_VENDOR" /\ parsed.maxTotalUsdc # NoNum /\ parsed.maxTotalUsdc # 0
    THEN parsed.maxTotalUsdc ELSE cfg.X402_MAX_PER_CMD_USDC

\* every failing read of a line reported anew
IngestLineReportsAgain(db, cfg, docId, l, answer, nowMin) ==
    LET parsed == parseWithLlm(RawLines[l], answer)
        cmdId == buildCmdIdFromParsed(parsed)
        k == <<docId, cmdId>>
        gated == requiresApproval(cfg, parsed)
        row == [rawCmd |-> l, parsed |-> parsed,
                status |-> IF gated THEN "AWAITING_APPROVAL" ELSE "APPROVED",
                lastError |-> NULL, createdSeq |-> RowCount(db.commands) + 1]
    IN IF parsed = ParseError
       THEN [db EXCEPT !.reported = @ \cup {l}, !.needsInfo = @ + 1]
       ELSE IF db.commands[k].status # "NONE" THEN db
       ELSE [db EXCEPT
               !.commands[k] = row,
               !.intents[k] = buildIntentMandate(parsed, chooseToolPlan(parsed),
                                                 IntentCeiling(cfg, parsed), nowMin),
               !.needsApproval[k] = gated,
               !.audit[k] = Append(@, IF gated THEN "AWAITING_APPROVAL" ELSE "AUTO_APPROVED")]

IngestLine(db, cfg, docId, l, answer, nowMin) ==
    LET parsed == parseWithLlm(RawLines[l], answer)
        cmdId == buildCmdIdFromParsed(parsed)
        k == <<docId, cmdId>>
        gated == requiresApproval(cfg, parsed)
        row == [rawCmd |-> l, parsed |-> parsed,
                status |-> IF gated THEN "AWAITING_APPROVAL" ELSE "APPROVED",
                lastError |-> NULL, createdSeq |-> RowCount(db.commands) + 1]
    IN IF parsed = ParseError
       THEN IF l \in db.reported THEN db
            ELSE [db EXCEPT !.reported = @ \cup {l}, !.needsInfo = @ + 1]
       ELSE IF db.commands[k].status # "NONE" THEN db
       ELSE [db EXCEPT
               !.commands[k] = row,
               !.intents[k] = buildIntentMandate(parsed, chooseToolPlan(parsed),
                                                 IntentCeiling(cfg, parsed), nowMin),
               !.needsApproval[k] = gated,
               !.audit[k] = Append(@, IF gated THEN "AWAITING_APPROVAL" ELSE "AUTO_APPROVED")]

\* the loop of ingestDocCommands.  Every line that is new to the store or fails to
\* parse for the first time ends in an awaited appendAuditLine; when the sink rejects
\* it, what was stored for the line stays, the loop is left and db.thrown is set.
RECURSIVE IngestAll(_, _, _, _, _, _, _)
IngestAll(db, cfg, docId, lines, answers, nowMin, sink) ==
    IF lines = <<>> THEN db
    ELSE LET db1 == IngestLine(db, cfg, docId, Head(lines), answers[Head(lines)], nowMin)
         IN IF ~sink /\ (db1.audit # db.audit \/ db1.needsInfo # db.needsInfo)
            THEN [db1 EXCEPT !.audit = db.audit, !.needsInfo = db.needsInfo,
                             !.thrown = TRUE]
            ELSE IngestAll(db1, cfg, docId, Tail(lines), answers, nowMin, sink)

listUserInputLines(present) == SelectSeq(LineOrder, LAMBDA l : l \in present)


(***************************************************************************)
(* Execution of one command (Orchestrator.executeCommand and the three     *)
(* execute* methods).  db is the part of the store an execution writes;    *)
(* tk is the position and the locals of the tick that runs it.  Each       *)
(* operator below is the code between two suspension points.               *)
(***************************************************************************)
IdleTick == [pc |-> "idle", docId |-> "", todo |-> <<>>, tools |-> <<>>,
             remainingBudget |-> 0, toolResults |-> <<>>, extras |-> <<>>,
             jobsTodo |-> <<>>, priced |-> FALSE, attempt |-> 1, due |-> <<>>]

Store == [commands |-> commands, receipts |-> receipts, ledger |-> ledger,
          audit |-> audit, payMandates |-> payMandates, jobs |-> jobs,
          toolCalls |-> toolCalls, settlements |-> settlements, swaps |-> swaps,
          x402Receipts |-> x402Receipts]

Step(db, tk) == [db |-> db, tk |-> tk]

At(tk, pc) == [tk EXCEPT !.pc = pc]

\* back in the loop of executeApprovedCommands, at the next command of the snapshot
NextCommand(tk) == [IdleTick EXCEPT !.pc = "approved", !.docId = tk.docId,
                                    !.todo = Tail(tk.todo)]

\* a snapshot of APPROVED commands that is not filtered to the scope of the tick: the
\* command taken from it belongs to another scope
CurKeyUnfiltered(tk) == <<CHOOSE d \in Docs : d # tk.docId, Head(tk.todo)>>

CurKey(tk) == <<tk.docId, Head(tk.todo)>>

\* executeCommand after its try block ended without an exception: memory.recordOutcome
Returned(db, tk) ==
    Step([db EXCEPT !.receipts = addAp2Receipt(@, CurKey(tk), "AGENT_REFLECTION",
                                               "MEMORY_SUCCESS")],
         NextCommand(tk))

\* executeCommand's catch block.  Its appendAuditLine is awaited inside the block:
\* when the sink rejects it the exception leaves executeCommand,
\* executeApprovedCommands and tick, before memory.recordOutcome.
Thrown(db, tk) ==
    LET k == CurKey(tk)
        db1 == [db EXCEPT
                  !.commands = updateCommandStatus(@, k, "FAILED", "error"),
                  !.receipts = addAp2Receipt(@, k, "ABORT", "EXECUTION_ERROR")]
    IN IF world.sink
       THEN Step([db1 EXCEPT
                    !.receipts = addAp2Receipt(@, k, "AGENT_REFLECTION", "MEMORY_FAILED"),
                    !.audit = appendAuditLine(@, k, "FAILED")],
                 NextCommand(tk))
       ELSE Step(db1, IdleTick)

\* an awaited appendAuditLine that is the last statement of an execute* method before
\* it returns: a rejection is an exception inside executeCommand's try block
Logged(db, tk, label) ==
    IF world.sink
    THEN Returned([db EXCEPT !.audit = appendAuditLine(@, CurKey(tk), label)], tk)
    ELSE Thrown(db, tk)

\* a policy or reflection abort inside an execute* method, followed by its return
Aborted(db, tk, code, receiptKind, withAudit) ==
    LET k == CurKey(tk)
        rc == IF receiptKind = NoField THEN db.receipts
              ELSE addAp2Receipt(db.receipts, k, receiptKind, code)
        db1 == [db EXCEPT !.commands = updateCommandStatus(@, k, "ABORTED", code),
                          !.receipts = rc]
    IN IF withAudit THEN Logged(db1, tk, "ABORTED") ELSE Returned(db1, tk)

\* parsed.maxTotalUsdc ?? config.X402_MAX_PER_CMD_USDC: only undefined falls back
budgetCap(cfg, parsed) ==
    IF parsed.maxTotalUsdc # NoNum THEN parsed.maxTotalUsdc ELSE cfg.X402_MAX_PER_CMD_USDC

\* executePayVendor from buildPaymentMandate to the x402Fetch call of the next tool
CallTool(db, tk) ==
    LET k == CurKey(tk)
        tool == Head(tk.tools)
    IN Step([db EXCEPT
               !.payMandates = @ \cup {<<k, tool.toolName, tool.priceUsdc>>},
               !.toolCalls[k] = @ + 1],
            At(tk, "pv_tool"))

\* executePayVendor after the planned tools: reflection when an agent is set and at
\* least one tool ran, settlement otherwise
AfterTools(db, tk, mode) ==
    IF mode # "none" /\ tk.toolResults # <<>>
    THEN Step(db, At(tk, "pv_reflect"))
    ELSE Step(db, At(tk, "pv_settle"))

\* executePayVendor from the policy evaluation to the first suspension point
PayVendorPolicy(db, tk, cfg, mode, tools, nowMin) ==
    LET k == CurKey(tk)
        parsed == db.commands[k].parsed
        decision == evaluatePolicy(cfg,
                        PolicyContext(parsed, PlanCost(tools), getCommandSpend(db.ledger, k),
                                      getDailySpend(db.ledger, tk.docId, startOfUtcDay(nowMin)),
                                      tools),
                        nowMin)
        tk1 == [tk EXCEPT !.tools = tools, !.remainingBudget = budgetCap(cfg, parsed),
                          !.toolResults = <<>>]
    IN IF decision # "OK" THEN Aborted(db, tk, decision, "ABORT", TRUE)
       ELSE IF tools = <<>> THEN AfterTools(db, tk1, mode)
       ELSE CallTool(db, tk1)

\* executeTreasurySwap from the research policy evaluation to the price-check call
SwapResearch(db, tk, cfg, nowMin) ==
    LET k == CurKey(tk)
        parsed == db.commands[k].parsed
        researchDecision ==
            evaluatePolicy(cfg,
                PolicyContext(parsed, PriceCheckPrice, getCommandSpend(db.ledger, k),
                              getDailySpend(db.ledger, tk.docId, startOfUtcDay(nowMin)),
                              <<Tool("price-check", PriceCheckPrice)>>),
                nowMin)
    IN IF researchDecision # "OK" THEN Aborted(db, tk, researchDecision, "ABORT", TRUE)
       ELSE Step([db EXCEPT !.toolCalls[k] = @ + 1], At(tk, "sw_research"))

\* executeCommand from the EXECUTING update to the first suspension point
StartCommand(db, tk, cfg, mode, nowMin) ==
    LET k == CurKey(tk)
        parsed == db.commands[k].parsed
        db1 == [db EXCEPT !.commands = updateCommandStatus(@, k, "EXECUTING", NULL)]
        decision == evaluatePolicy(cfg,
                        PolicyContext(parsed, 0, getCommandSpend(db.ledger, k),
                                      getDailySpend(db.ledger, tk.docId, startOfUtcDay(nowMin)),
                                      <<>>),
                        nowMin)
    IN CASE parsed.kind = "PAY_VENDOR" ->
              IF mode = "none"
              THEN PayVendorPolicy(db1, tk, cfg, mode, chooseToolPlan(parsed), nowMin)
              ELSE Step(db1, At(tk, "pv_plan"))
         [] parsed.kind = "TREASURY_SWAP" ->
              IF decision # "OK" THEN Aborted(db1, tk, decision, "ABORT", FALSE)
              ELSE IF mode # "none" THEN Step(db1, At(tk, "sw_plan"))
              ELSE SwapResearch(db1, tk, cfg, nowMin)
         [] parsed.kind = "PRIVATE_PAYOUT" ->
              IF decision # "OK" THEN Aborted(db1, tk, decision, "ABORT", FALSE)
              ELSE IF db1.jobs[k].status = "NONE" THEN Step(db1, At(tk, "pp_create"))
              ELSE Logged(db1, tk, "ENCRYPTED_PENDING")
         [] OTHER -> Returned(db1, tk)

\* one round of the loop of executeApprovedCommands up to the first suspension point
ApprovedRound(db, tk, cfg, mode, cartRows, nowMin) ==
    LET k == CurKey(tk)
        cart == getAp2CartMandate(cartRows[k])
    IN IF cartRows[k].createdAt # -1 /\ cart.expiresAt # NoNum /\ nowMin > cart.expiresAt
       THEN LET db1 == [db EXCEPT
                           !.commands = updateCommandStatus(@, k, "ABORTED",
                                                            "EXPIRED_MANDATE"),
                           !.receipts = addAp2Receipt(@, k, "ABORT", "EXPIRED_MANDATE")]
            IN IF world.sink
               THEN Step([db1 EXCEPT !.audit = appendAuditLine(@, k, "ABORTED")],
                         NextCommand(tk))
               ELSE Step(db1, IdleTick)
       ELSE StartCommand(db, tk, cfg, mode, nowMin)


(***************************************************************************)
(* x402Fetch's retry loop (src/unnamed/part_010).                          *)
(***************************************************************************)
maxRetries == 3

\* a loop that gives up after the second attempt
x402RetryOnce(attempt) == attempt < 2

\* x402Fetch's catch block: every error is taken alike; attempt < maxRetries decides
\* whether the backoff timer is set and another attempt follows
x402Retry(attempt) == attempt < maxRetries

(***************************************************************************)
(* Outcomes the environment may give.                                      *)
(***************************************************************************)
\* x402Fetch: answered without a challenge, paid and answered, paid and answered with
\* an error status, or failed (budget exceeded, transport or upstream failure)
X402Outcomes(price, budget, faults) ==
    IF price <= budget
    THEN {"ok_paid"} \cup (IF faults THEN {"ok_free", "fail_paid", "throw"} ELSE {})
    ELSE {"throw"} \cup (IF faults THEN {"ok_free"} ELSE {})

CostOf(outcome, price) == IF outcome \in {"ok_paid", "fail_paid"} THEN price ELSE 0

\* receipt.retryStatus: the status of the response x402Fetch returned
StatusOf(outcome) == IF outcome = "fail_paid" THEN 500 ELSE 200

\* tool plans a model may return after filtering against the discovered catalog
LlmPlans == {<<>>, <<Tool("vendor-risk", VendorRiskPrice)>>,
             <<Tool("vendor-risk", VendorRiskPrice), Tool("compliance-check", CompliancePrice)>>}

\* additionalTools a model may return with CALL_MORE_TOOLS; names and prices are its own
LlmExtras == {<<Tool("price-check", PriceCheckPrice)>>,
              <<Tool("compliance-check", 100), Tool("deep-scan", 10)>>}

Wallets == {"0xAb"}                 \* address of the connected wallet session
Signers == {"0xAB", "0xCd"}         \* key that produced the returned signature

(***************************************************************************)
(* Actions.                                                                *)
(***************************************************************************)
Apply(p, r) ==
    /\ commands' = r.db.commands
    /\ receipts' = r.db.receipts
    /\ ledger' = r.db.ledger
    /\ audit' = r.db.audit
    /\ payMandates' = r.db.payMandates
    /\ jobs' = r.db.jobs
    /\ toolCalls' = r.db.toolCalls
    /\ x402Receipts' = r.db.x402Receipts
    /\ settlements' = r.db.settlements
    /\ swaps' = r.db.swaps
    /\ tick' = [tick EXCEPT ![p] = r.tk]

execFrame == <<now, config, agentMode, world, docLines, intents, carts, reported, needsInfo,
               rules, sigLog, needsApproval, ops, pin, pout>>

WorldKeys == {k \in Keys : k[1] \in world.docs
                 /\ \E l \in world.lines : \E parsed \in Readings(l) :
                       k[2] = buildCmdIdFromParsed(parsed)}

\* the classifier's answers to the lines of one ingestion
AnswerSets ==
    IF world.classifier
    THEN {f \in [docLines -> UNION {LlmAnswers(RawLines[l]) : l \in docLines}] :
             \A l \in docLines : f[l] \in LlmAnswers(RawLines[l])}
    ELSE {[l \in docLines |-> NoAnswer]}

\* time passes
AdvanceClock ==
    /\ world.clock
    /\ ops.clock < MaxClock
    /\ \E t \in {now + CartWindowMin + 1, startOfUtcDay(now) + DayMin} : now' = t
    /\ ops' = [ops EXCEPT !.clock = @ + 1]
    /\ UNCHANGED <<config, agentMode, world, docLines, commands, intents, carts, payMandates,
                   receipts, ledger, jobs, audit, reported, needsInfo, rules, tick, sigLog,
                   needsApproval, settlements, swaps, toolCalls, x402Receipts, pin, pout>>

\* main.ts setInterval callback or POST /api/tick/:docId: Orchestrator.tick is entered
\* and waits for listUserInputLines.  Neither caller looks at ticks still running.
TickStart(p, d) ==
    /\ d \in world.docs
    /\ tick[p].pc = "idle"
    /\ \A q \in Procs : q < p => tick[q].pc # "idle"
    /\ world.overlap \/ \A q \in Procs : tick[q].pc = "idle"
    /\ tick' = [tick EXCEPT ![p] = [IdleTick EXCEPT !.pc = "ingest", !.docId = d]]
    /\ UNCHANGED <<now, config, agentMode, world, docLines, commands, intents, carts,
                   payMandates, receipts, ledger, jobs, audit, reported, needsInfo, rules,
                   sigLog, needsApproval, settlements, swaps, toolCalls,
                   x402Receipts, ops, pin, pout>>

\* Orchestrator.ingestDocCommands, then the snapshot taken by executeApprovedCommands;
\* an exception of ingestDocCommands leaves tick at once
Ingest(p) ==
    /\ tick[p].pc = "ingest"
    /\ \E answers \in AnswerSets :
       LET d == tick[p].docId
           db == IngestAll([commands |-> commands, intents |-> intents,
                            needsApproval |-> needsApproval, audit |-> audit,
                            reported |-> reported, needsInfo |-> needsInfo,
                            thrown |-> FALSE],
                           config, d, listUserInputLines(docLines), answers, now,
                           world.sink)
       IN /\ commands' = db.commands
          /\ intents' = db.intents
          /\ needsApproval' = db.needsApproval
          /\ audit' = db.audit
          /\ reported' = db.reported
          /\ needsInfo' = db.needsInfo
          /\ tick' = IF db.thrown THEN [tick EXCEPT ![p] = IdleTick]
                     ELSE [tick EXCEPT ![p].pc = "approved",
                                       ![p].todo = listCommandsByStatus(db.commands, d,
                                                                        "APPROVED")]
    /\ UNCHANGED <<now, config, agentMode, world, docLines, carts, payMandates, receipts,
                   ledger, jobs, rules, sigLog, settlements, swaps, toolCalls,
                   x402Receipts, ops, pin, pout>>

\* Repo.listEncryptedJobsByStatus: the rows of one status, oldest first, as the
\* database driver hands them over, keyed by column name (job_id, doc_id, cmd_id,
\* condition_json, tx_hash, ...).  EncryptedJobRecord is a cast and renames nothing,
\* so of the fields the callers read only status is there; docId, cmdId,
\* conditionJson and txHash read undefined on every row.
listEncryptedJobsByStatus(jobTable, cmds, status) ==
    LET ks == OrderBySeq(cmds, {k \in Keys : jobTable[k].status = status})
    IN [i \in 1..Len(ks) |-> [status |-> status, docId |-> NoField, cmdId |-> NoField,
                                conditionJson |-> NoField, txHash |-> NoField]]

\* processEncryptedJobs: PENDING then SUBMITTED rows, those of the scope kept
JobSnapshot(jobTable, cmds, d) ==
    SelectSeq(listEncryptedJobsByStatus(jobTable, cmds, "PENDING")
                 \o listEncryptedJobsByStatus(jobTable, cmds, "SUBMITTED"),
              LAMBDA job : job.docId = d)

\* BiteService.processJob: what is to be done with a job at nowMin
processJob(unlockAt, txHash, nowMin) ==
    LET unlockMs == DateParse(unlockAt)
    IN IF unlockMs = -1 THEN "Invalid unlock timestamp"
       ELSE IF nowMin < unlockMs THEN "Unlock condition not met"
       ELSE IF txHash \in {NULL, NoField} THEN "submit"
       ELSE "decrypt"

\* processEncryptedJobs, the loop over the snapshot: a row whose condition does not
\* parse ends the loop and the tick through the exception of JSON.parse; a job not
\* yet due is passed over; the calls out for a due job are awaited (no row gets that
\* far: the filter on docId keeps none).  When the list is exhausted tick goes on to
\* the recurring check.
RECURSIVE JobsNext(_, _, _)
JobsNext(db, tk, nowMin) ==
    IF tk.jobsTodo = <<>> THEN Step(db, At(tk, "scheduler"))
    ELSE LET job == Head(tk.jobsTodo)
         IN IF job.conditionJson = NoField THEN Step(db, IdleTick)
            ELSE IF processJob(job.conditionJson, job.txHash, nowMin) \in {"submit", "decrypt"}
            THEN Step(db, At(tk, "job_io"))
            ELSE JobsNext(db, [tk EXCEPT !.jobsTodo = Tail(@)], nowMin)

\* executeApprovedCommands: the next command of the snapshot, or the end of the loop
\* and the snapshot taken by processEncryptedJobs
ExecNext(p) ==
    /\ tick[p].pc = "approved"
    /\ Apply(p, IF tick[p].todo = <<>>
                THEN JobsNext(Store, [IdleTick EXCEPT !.docId = tick[p].docId,
                                                      !.jobsTodo = JobSnapshot(jobs, commands,
                                                                                tick[p].docId)],
                              now)
                ELSE ApprovedRound(Store, tick[p], config, agentMode, carts, now))
    /\ UNCHANGED execFrame

\* RecurringScheduler (src/src/engine/scheduler.ts).  A rule is kept with nextRunAt and
\* lastRunAt in minutes; lastRunAt NoNum: the rule never ran.
RecurringRule(id, frequency, nextRunAt, enabled) ==
    [id |-> id, vendor |-> "ACME", amountUsdc |-> 200, to |-> "0xAb",
     frequency |-> frequency, nextRunAt |-> nextRunAt, lastRunAt |-> NoNum,
     enabled |-> enabled]

DaysInMonth == 31            \* of January 1970, the month the explored clock stays in

\* computeNext: setUTCDate(+1), setUTCDate(+7), setUTCMonth(+1)
computeNext(from, frequency) ==
    CASE frequency = "daily" -> from + DayMin
      [] frequency = "weekly" -> from + 7 * DayMin
      [] frequency = "monthly" -> from + DaysInMonth * DayMin
      [] OTHER -> from

\* `Pay ${rule.vendor} ${rule.amountUsdc} USDC to ${rule.to}`
cmdText(rule) ==
    [surface |-> "NL", verb |-> "pay", vendor |-> rule.vendor,
     amount |-> numToString(rule.amountUsdc), to |-> rule.to, maxTotal |-> NoField,
     slippage |-> NoField, slipUnit |-> NoField, maxSpend |-> NoField,
     unlockAt |-> NoField, frequency |-> NoField]

\* the line of the catalogue that has this text
LineOf(raw) == CHOOSE l \in LineIds : RawLines[l] = raw

\* checkDuePayments from rule i on.  The audit line of a due rule is awaited before
\* the rule is advanced: when the sink rejects it the exception leaves the method,
\* and the lines collected so far with it.
RECURSIVE DuePass(_, _, _, _, _)
DuePass(rs, i, created, nowMin, sink) ==
    IF i > Len(rs) THEN [rules |-> rs, created |-> created]
    ELSE IF ~rs[i].enabled \/ nowMin < rs[i].nextRunAt
    THEN DuePass(rs, i + 1, created, nowMin, sink)
    ELSE IF ~sink THEN [rules |-> rs, created |-> <<>>]
    ELSE DuePass([rs EXCEPT ![i].lastRunAt = nowMin,
                            ![i].nextRunAt = computeNext(nowMin, rs[i].frequency)],
                 i + 1, Append(created, cmdText(rs[i])), nowMin, sink)

checkDuePayments(rs, nowMin, sink) == DuePass(rs, 1, <<>>, nowMin, sink)

\* tick: the recurring check.  checkDuePayments runs and returns the lines of the due
\* rules; an exception is caught and logged.  Without a line tick returns.
SchedulerCheck(p) ==
    /\ tick[p].pc = "scheduler"
    /\ LET r == checkDuePayments(rules, now, world.sink)
       IN /\ rules' = r.rules
          /\ tick' = [tick EXCEPT ![p] = IF r.created = <<>> THEN IdleTick
                                         ELSE [@ EXCEPT !.pc = "inject",
                                                        !.due = r.created]]
    /\ UNCHANGED <<now, config, agentMode, world, docLines, commands, intents, carts,
                   payMandates, receipts, ledger, jobs, audit, reported, needsInfo,
                   sigLog, needsApproval, settlements, swaps, toolCalls,
                   x402Receipts, ops, pin, pout>>

\* tick: appendInboxLine came back for the next line of the due list.  The document
\* service swallows its own errors: when the write failed the line is lost.
SchedulerInject(p, written) ==
    /\ tick[p].pc = "inject"
    /\ written \/ world.faults
    /\ docLines' = IF written THEN docLines \cup {LineOf(Head(tick[p].due))} ELSE docLines
    /\ tick' = [tick EXCEPT ![p] = IF Tail(@.due) = <<>> THEN IdleTick
                                   ELSE [@ EXCEPT !.due = Tail(@)]]
    /\ UNCHANGED <<now, config, agentMode, world, commands, intents, carts,
                   payMandates, receipts, ledger, jobs, audit, reported, needsInfo, rules,
                   sigLog, needsApproval, settlements, swaps, toolCalls,
                   x402Receipts, ops, pin, pout>>

\* executePayVendor: the agent returned its plan
PvPlan(p, tools) ==
    /\ tick[p].pc = "pv_plan"
    /\ LET parsed == commands[CurKey(tick[p])].parsed
       IN IF agentMode = "llm" THEN tools \in LlmPlans
          ELSE tools = fallbackPlan(parsed, budgetCap(config, parsed))
    /\ Apply(p, PayVendorPolicy(
                   [Store EXCEPT !.receipts = addAp2Receipt(@, CurKey(tick[p]), "AGENT_PLAN",
                                                            "PLAN")],
                   tick[p], config, agentMode, tools, now))
    /\ UNCHANGED execFrame

\* executePayVendor: an attempt of x402Fetch for the current planned tool came back
\* or failed; a failed attempt is followed by the next one after the backoff timer,
\* the third failure leaves x402Fetch as an exception
PvTool(p, outcome) ==
    /\ tick[p].pc = "pv_tool"
    /\ LET tk == tick[p]
           k == CurKey(tk)
           tool == Head(tk.tools)
           cost == CostOf(outcome, tool.priceUsdc)
           db1 == [Store EXCEPT
                     !.x402Receipts = addX402Receipt(@, k, tool.toolName,
                                                     StatusOf(outcome), cost),
                     !.ledger = addSpend(@, k, cost, now),
                     !.receipts = addAp2Receipt(@, k, "TOOL", tool.toolName)]
           tk1 == [tk EXCEPT !.tools = Tail(@), !.remainingBudget = @ - cost,
                             !.toolResults = Append(@, tool.toolName), !.attempt = 1]
       IN /\ outcome \in X402Outcomes(tool.priceUsdc, tk.remainingBudget, world.faults)
          /\ Apply(p, CASE outcome = "throw" ->
                             IF x402Retry(tk.attempt)
                             THEN Step(Store, [tk EXCEPT !.attempt = @ + 1])
                             ELSE Thrown(Store, tk)
                        [] ~ResponseOk(StatusOf(outcome)) -> Thrown(db1, tk)
                        [] OTHER -> IF tk1.tools = <<>> THEN AfterTools(db1, tk1, agentMode)
                                    ELSE CallTool(db1, tk1))
    /\ UNCHANGED execFrame


\* executePayVendor, tool chaining: skip names outside the allowlist, call the next one
RECURSIVE ChainNext(_, _, _)
ChainNext(db, tk, cfg) ==
    IF tk.extras = <<>> THEN Step(db, At(tk, "pv_settle"))
    ELSE IF Head(tk.extras).toolName \notin cfg.x402ToolAllowlist
    THEN ChainNext(db, [tk EXCEPT !.extras = Tail(@)], cfg)
    ELSE Step([db EXCEPT !.toolCalls[CurKey(tk)] = @ + 1], At(tk, "pv_chain"))

\* AgentReasoner.reflectOnResults: without a model only a failed compliance result
\* (which the tool may or may not report) aborts; a model may answer anything
Reflections(mode, toolResults) ==
    IF mode = "llm"
    THEN {[action |-> "PROCEED", additionalTools |-> <<>>],
          [action |-> "ABORT", additionalTools |-> <<>>]}
         \cup {[action |-> "CALL_MORE_TOOLS", additionalTools |-> e] : e \in LlmExtras}
    ELSE {[action |-> "PROCEED", additionalTools |-> <<>>]}
         \cup (IF "compliance-check" \in Range(toolResults)
               THEN {[action |-> "ABORT", additionalTools |-> <<>>]} ELSE {})

\* executePayVendor: the reflection came back
PvReflect(p, reflection) ==
    /\ tick[p].pc = "pv_reflect"
    /\ reflection \in Reflections(agentMode, tick[p].toolResults)
    /\ LET tk == tick[p]
           db1 == [Store EXCEPT !.receipts = addAp2Receipt(@, CurKey(tk), "AGENT_REFLECTION",
                                                           reflection.action)]
       IN Apply(p, IF reflection.action = "ABORT"
                   THEN Aborted(db1, tk, "AGENT_ABORT", NoField, TRUE)
                   ELSE ChainNext(db1, [tk EXCEPT !.extras = reflection.additionalTools],
                                  config))
    /\ UNCHANGED execFrame

\* executePayVendor: an attempt of x402Fetch for a chained tool came back or failed;
\* the exception of the third failure is caught and the next chained tool follows
PvChain(p, outcome) ==
    /\ tick[p].pc = "pv_chain"
    /\ LET tk == tick[p]
           k == CurKey(tk)
           extraTool == Head(tk.extras)
           cost == CostOf(outcome, extraTool.priceUsdc)
           db1 == IF outcome = "throw" THEN Store
                  ELSE [Store EXCEPT
                          !.x402Receipts = addX402Receipt(@, k, extraTool.toolName,
                                                          StatusOf(outcome), cost),
                          !.ledger = addSpend(@, k, cost, now)]
           tk1 == [tk EXCEPT !.extras = Tail(@), !.attempt = 1,
                             !.remainingBudget = IF outcome = "throw" THEN @ ELSE @ - cost]
       IN /\ outcome \in X402Outcomes(extraTool.priceUsdc, tk.remainingBudget, world.faults)
          /\ Apply(p, IF outcome = "throw" /\ x402Retry(tk.attempt)
                      THEN Step(Store, [tk EXCEPT !.attempt = @ + 1])
                      ELSE ChainNext(db1, tk1, config))
    /\ UNCHANGED execFrame

\* executePayVendor: sendSettlement and waitForSettlement came back, or sendSettlement failed
PvSettle(p, sent) ==
    /\ tick[p].pc = "pv_settle"
    /\ sent \/ world.faults
    /\ LET tk == tick[p]
           k == CurKey(tk)
       IN Apply(p, IF sent
                   THEN Logged([Store EXCEPT
                                  !.settlements[k] = @ + 1,
                                  !.receipts = addAp2Receipt(@, k, "SETTLEMENT",
                                                             "PAYOUT_EXECUTED"),
                                  !.commands = updateCommandStatus(@, k, "DONE", NULL)],
                               tk, "DONE")
                   ELSE Thrown(Store, tk))
    /\ UNCHANGED execFrame

\* executeTreasurySwap after the research: reflection when an agent is set and a price
\* came back, the swap call otherwise
AfterResearch(db, tk, mode) ==
    IF mode # "none" /\ tk.priced THEN Step(db, At(tk, "sw_reflect"))
    ELSE Step(db, At(tk, "sw_exec"))

\* executeTreasurySwap: the agent returned its plan
SwPlan(p, shouldResearch) ==
    /\ tick[p].pc = "sw_plan"
    /\ IF agentMode = "llm" THEN shouldResearch \in BOOLEAN
       ELSE shouldResearch =
              (fallbackPlan(commands[CurKey(tick[p])].parsed, SwapResearchBudget) # <<>>)
    /\ LET tk == tick[p]
           db1 == [Store EXCEPT !.receipts = addAp2Receipt(@, CurKey(tk), "AGENT_PLAN", "PLAN")]
       IN Apply(p, IF shouldResearch THEN SwapResearch(db1, tk, config, now)
                   ELSE AfterResearch(db1, tk, agentMode))
    /\ UNCHANGED execFrame

\* a price-check call whose last failure fails the command
SwResearchDoneFailing(p, outcome) ==
    /\ tick[p].pc = "sw_research"
    /\ outcome \in X402Outcomes(PriceCheckPrice, SwapResearchBudget, world.faults)
    /\ LET tk == tick[p]
           k == CurKey(tk)
           db1 == [Store EXCEPT
                     !.x402Receipts = addX402Receipt(@, k, "price-check",
                                                     StatusOf(outcome),
                                                     CostOf(outcome, PriceCheckPrice)),
                     !.ledger = addSpend(@, k, CostOf(outcome, PriceCheckPrice), now),
                     !.audit = IF world.sink THEN appendAuditLine(@, k, "RESEARCH")
                               ELSE @]
       IN Apply(p, IF outcome = "throw"
                   THEN (IF x402Retry(tk.attempt)
                         THEN Step(Store, [tk EXCEPT !.attempt = @ + 1])
                         ELSE Thrown(Store, tk))
                   ELSE AfterResearch(db1, [tk EXCEPT
                                              !.attempt = 1,
                                              !.priced = (outcome \in {"ok_free", "ok_paid"})],
                                      agentMode))
    /\ UNCHANGED execFrame

\* executeTreasurySwap: an attempt of the price-check call came back or failed; the
\* exception of the third failure is logged and the swap goes on
SwResearchDone(p, outcome) ==
    /\ tick[p].pc = "sw_research"
    /\ outcome \in X402Outcomes(PriceCheckPrice, SwapResearchBudget, world.faults)
    /\ LET tk == tick[p]
           k == CurKey(tk)
           db1 == IF outcome = "throw" THEN Store
                  ELSE [Store EXCEPT
                          !.x402Receipts = addX402Receipt(@, k, "price-check",
                                                          StatusOf(outcome),
                                                          CostOf(outcome, PriceCheckPrice)),
                          !.ledger = addSpend(@, k, CostOf(outcome, PriceCheckPrice), now),
                          !.audit = IF world.sink THEN appendAuditLine(@, k, "RESEARCH")
                                    ELSE @]
       IN Apply(p, IF outcome = "throw" /\ x402Retry(tk.attempt)
                   THEN Step(Store, [tk EXCEPT !.attempt = @ + 1])
                   ELSE AfterResearch(db1, [tk EXCEPT
                                              !.attempt = 1,
                                              !.priced = (outcome \in {"ok_free", "ok_paid"})],
                                      agentMode))
    /\ UNCHANGED execFrame

\* executeTreasurySwap: the reflection on the price came back
SwReflect(p, action) ==
    /\ tick[p].pc = "sw_reflect"
    /\ action \in {r.action : r \in Reflections(agentMode, <<"price-check">>)}
    /\ LET tk == tick[p]
           db1 == [Store EXCEPT !.receipts = addAp2Receipt(@, CurKey(tk), "AGENT_REFLECTION",
                                                           action)]
       IN Apply(p, IF action = "ABORT" THEN Aborted(db1, tk, "AGENT_ABORT", NoField, TRUE)
                   ELSE Step(db1, At(tk, "sw_exec")))
    /\ UNCHANGED execFrame

\* executeTreasurySwap: DefiSwapService.executeTreasurySwap came back or failed
SwExec(p, swapped) ==
    /\ tick[p].pc = "sw_exec"
    /\ swapped \/ world.faults
    /\ LET tk == tick[p]
           k == CurKey(tk)
       IN Apply(p, IF swapped
                   THEN Logged([Store EXCEPT
                                  !.swaps[k] = @ + 1,
                                  !.receipts = addAp2Receipt(@, k, "DEFI", "SWAP"),
                                  !.commands = updateCommandStatus(@, k, "DONE", NULL)],
                               tk, "DONE")
                   ELSE Thrown(Store, tk))
    /\ UNCHANGED execFrame

\* a job stored as already handed to the network
createEncryptedJobSubmitted(jobTable, k, unlockAt) ==
    [jobTable EXCEPT ![k] = [status |-> "SUBMITTED", txHash |-> NULL, unlockAt |-> unlockAt,
                             decrypted |-> FALSE]]

\* Repo.createEncryptedJob as executePrivatePayout calls it: INSERT OR REPLACE of the
\* row of the job (its id is a hash of scope, command, recipient and unlock time),
\* status PENDING, tx_hash and decrypted_json NULL
createEncryptedJob(jobTable, k, unlockAt) ==
    [jobTable EXCEPT ![k] = [status |-> "PENDING", txHash |-> NULL, unlockAt |-> unlockAt,
                             decrypted |-> FALSE]]

\* executePrivatePayout: createEncryptedTransferJob came back or failed
PpCreate(p, created) ==
    /\ tick[p].pc = "pp_create"
    /\ created \/ world.faults
    /\ LET tk == tick[p]
           k == CurKey(tk)
       IN Apply(p, IF created
                   THEN Logged([Store EXCEPT
                                  !.jobs = createEncryptedJob(@, k,
                                                              commands[k].parsed.unlockAt),
                                  !.receipts = addAp2Receipt(@, k, "ENCRYPTED",
                                                             "ENCRYPTED_JOB_CREATED"),
                                  !.commands = updateCommandStatus(@, k, "EXECUTING", NULL)],
                               tk, "ENCRYPTED_PENDING")
                   ELSE Thrown(Store, tk))
    /\ UNCHANGED execFrame


\* what the wallet may hand back: a signature by some key over the cart's message or
\* over something else
Signatures(message) ==
    {[by |-> s, over |-> m] : s \in Signers, m \in {message, NoSignature.over}}

\* POST /api/ap2/cmd/:docId/:cmdId/request-approval -> Orchestrator.requestApproval.
\* Without the command or its intent it returns approved=false at once; otherwise the
\* action is taken at the wallet's answer.  A wallet that refuses leaves the store as
\* it was.
RequestApproval(d, c, signerAddress, signature) ==
    LET k == <<d, c>>
        cart == buildCartMandate(intents[k], now)
        verification == verifyAuthorizationSignature(cart, signature, signerAddress)
        signedCart == [cart EXCEPT !.signerAddress = verification.signerAddress,
                                   !.signature = signature]
        ok == verification.valid /\ verification.signerAddress # ""
    IN /\ "approve" \in world.requests
       /\ ops.req < MaxOps
       /\ k \in WorldKeys
       /\ signerAddress \in Wallets
       /\ ops' = [ops EXCEPT !.req = @ + 1]
       /\ IF commands[k].status = "NONE" \/ intents[k].status = "NONE"
          THEN /\ signature = NoSignature
               /\ UNCHANGED <<commands, carts, intents, receipts, audit, sigLog>>
          ELSE /\ signature \in Signatures(cart.message)
               /\ sigLog' = [sigLog EXCEPT ![k] = @ \cup
                                {[by |-> signature.by,
                                  overCart |-> signature.over = cart.message,
                                  wallet |-> signerAddress,
                                  stored |-> ok]}]
               /\ IF ok
                  THEN /\ carts' = [carts EXCEPT ![k] = CartRow(signedCart)]
                       /\ intents' = [intents EXCEPT ![k].status = "APPROVED"]
                       /\ commands' = updateCommandStatus(commands, k, "APPROVED", NULL)
                       /\ receipts' = addAp2Receipt(receipts, k, "SETTLEMENT",
                                                    "AUTH_APPROVED")
                       /\ audit' = IF world.sink
                                   THEN appendAuditLine(audit, k, "APPROVED") ELSE audit
                  ELSE /\ commands' = updateCommandStatus(
                                          commands, k, "FAILED",
                                          "Authorization signature verification failed")
                       /\ UNCHANGED <<carts, intents, receipts, audit>>
       /\ UNCHANGED <<now, config, agentMode, world, docLines, payMandates, ledger, jobs,
                      reported, needsInfo, rules, tick, needsApproval, settlements, swaps,
                      toolCalls, x402Receipts, pin, pout>>

\* POST /api/ap2/cmd/:docId/:cmdId/simulate-failure -> Orchestrator.simulateAbort
SimulateAbort(d, c) ==
    LET k == <<d, c>>
    IN /\ "abort" \in world.requests
       /\ ops.req < MaxOps
       /\ k \in WorldKeys
       /\ ops' = [ops EXCEPT !.req = @ + 1]
       /\ commands' = updateCommandStatus(commands, k, "ABORTED", "MANUAL_FAILURE_SIMULATION")
       /\ receipts' = addAp2Receipt(receipts, k, "ABORT", "MANUAL_FAILURE_SIMULATION")
       /\ audit' = IF world.sink THEN appendAuditLine(audit, k, "ABORTED") ELSE audit
       /\ UNCHANGED <<now, config, agentMode, world, docLines, intents, carts, payMandates,
                      ledger, jobs, reported, needsInfo, rules, tick, sigLog, needsApproval,
                      settlements, swaps, toolCalls, x402Receipts, pin, pout>>


(***************************************************************************)
(* Configurations and deployments explored.                                *)
(***************************************************************************)
\* src/src/config.ts defaults
DefaultConfig ==
    [X402_MAX_PER_CMD_USDC |-> 200, X402_DAILY_LIMIT_USDC |-> 2000,
     X402_REQUIRE_APPROVAL_ABOVE_USDC |-> 10, AUTO_RUN_UNDER_USDC |-> 500,
     x402ToolAllowlist |-> {"vendor-risk", "compliance-check", "price-check"}]

\* the same with X402_DAILY_LIMIT_USDC=1 in the environment
TightDailyConfig == [DefaultConfig EXCEPT !.X402_DAILY_LIMIT_USDC = 100]

\* overlap: tick requests arrive while a tick is running; requests: the operator
\* requests served; clock: time passes; faults: paid tools, the wallet, the swap venue
\* and the encryption network may fail or answer without asking for payment;
\* classifier: the intent classifier answers (it has a model and is not backing off)
\* sink: the audit sink takes the lines; FALSE: every appendAuditLine is rejected
Scenario(docs, lines, mode, cfg, overlap, requests, clock, faults, classifier, sink) ==
    [docs |-> docs, lines |-> lines, agentMode |-> mode, config |-> cfg,
     overlap |-> overlap, requests |-> requests, clock |-> clock, faults |-> faults,
     classifier |-> classifier, sink |-> sink]

Scenarios ==
    {Scenario({"docA"}, {"l1", "l2"}, "none", DefaultConfig, TRUE, {}, FALSE,
              FALSE, FALSE, TRUE),
     Scenario({"docA"}, {"l1"}, "llm", TightDailyConfig, FALSE, {"approve"}, FALSE,
              FALSE, FALSE, TRUE),
     Scenario({"docA"}, {"l3"}, "none", DefaultConfig, FALSE, {"approve"}, FALSE,
              TRUE, FALSE, TRUE),
     Scenario({"docA"}, {"l3"}, "none", DefaultConfig, FALSE, {"approve"}, TRUE,
              FALSE, FALSE, TRUE),
     Scenario({"docA"}, {"l1"}, "rules", DefaultConfig, FALSE, {"abort"}, FALSE,
              TRUE, FALSE, TRUE),
     Scenario({"docA"}, {"l4", "l5", "l6"}, "none", DefaultConfig, FALSE, {}, FALSE,
              TRUE, FALSE, TRUE),
     Scenario({"docA"}, {"l5"}, "llm", DefaultConfig, FALSE, {"abort"}, FALSE,
              TRUE, FALSE, TRUE),
     Scenario({"docA", "docB"}, {"l7"}, "none", DefaultConfig, FALSE, {}, TRUE,
              TRUE, FALSE, TRUE),
     Scenario({"docA"}, {"l7"}, "none", DefaultConfig, FALSE, {"abort"}, TRUE,
              FALSE, FALSE, TRUE),
     Scenario({"docA"}, {"l8", "l9"}, "rules", DefaultConfig, TRUE, {}, FALSE,
              FALSE, FALSE, TRUE),
     Scenario({"docA"}, {"l1"}, "llm", DefaultConfig, FALSE, {}, FALSE,
              FALSE, TRUE, TRUE),
     Scenario({"docA"}, {"l10"}, "none", DefaultConfig, FALSE, {"approve"}, FALSE,
              FALSE, FALSE, TRUE),
     Scenario({"docA"}, {"l1", "l4"}, "none", DefaultConfig, FALSE, {}, FALSE,
              FALSE, FALSE, FALSE),
     Scenario({"docA"}, {"l1"}, "llm", DefaultConfig, FALSE, {}, FALSE,
              TRUE, FALSE, TRUE),
     Scenario({"docA"}, {"l1", "l3"}, "none", DefaultConfig, FALSE, {}, FALSE,
              FALSE, FALSE, TRUE)}

NoPolicyInput ==
    [config |-> DefaultConfig, nowMin |-> 0,
     context |-> PolicyContext(ParseError, 0, 0, 0, <<>>)]

\* the empty database, no tick in flight
InitTables ==
    /\ now = 0
    /\ commands = [k \in Keys |-> NoCommand]
    /\ intents = [k \in Keys |-> NoIntent]
    /\ carts = [k \in Keys |-> NoCart]
    /\ payMandates = {}
    /\ receipts = [k \in Keys |-> <<>>]
    /\ ledger = [k \in Keys |-> <<>>]
    /\ jobs = [k \in Keys |-> NoJob]
    /\ audit = [k \in Keys |-> <<>>]
    /\ reported = {}
    /\ needsInfo = 0
    /\ tick = [p \in Procs |-> IdleTick]
    /\ sigLog = [k \in Keys |-> {}]
    /\ needsApproval = [k \in Keys |-> FALSE]
    /\ settlements = [k \in Keys |-> 0]
    /\ swaps = [k \in Keys |-> 0]
    /\ toolCalls = [k \in Keys |-> 0]
    /\ x402Receipts = [k \in Keys |-> <<>>]
    /\ ops = [req |-> 0, clock |-> 0]

\* no rule is registered: addRule has no caller in src/src
InitStore ==
    /\ InitTables
    /\ rules = <<>>

Init ==
    /\ \E sc \in Scenarios :
          /\ world = [docs |-> sc.docs, lines |-> sc.lines, overlap |-> sc.overlap,
                       requests |-> sc.requests, clock |-> sc.clock,
                       faults |-> sc.faults, classifier |-> sc.classifier,
                       sink |-> sc.sink]
          /\ docLines = sc.lines
          /\ agentMode = sc.agentMode
          /\ config = sc.config
    /\ InitStore
    /\ pin = NoPolicyInput
    /\ pout = "NONE"

Next ==
    \/ AdvanceClock
    \/ \E p \in Procs, d \in Docs : TickStart(p, d)
    \/ \E p \in Procs : Ingest(p)
    \/ \E p \in Procs : ExecNext(p)
    \/ \E p \in Procs : SchedulerCheck(p)
    \/ \E p \in Procs, tools \in LlmPlans : PvPlan(p, tools)
    \/ \E p \in Procs, outcome \in {"ok_free", "ok_paid", "fail_paid", "throw"} :
          PvTool(p, outcome)
    \/ \E p \in Procs, r \in Reflections("llm", <<>>) : PvReflect(p, r)
    \/ \E p \in Procs, outcome \in {"ok_free", "ok_paid", "fail_paid", "throw"} :
          PvChain(p, outcome)
    \/ \E p \in Procs, sent \in BOOLEAN : PvSettle(p, sent)
    \/ \E p \in Procs, shouldResearch \in BOOLEAN : SwPlan(p, shouldResearch)
    \/ \E p \in Procs, outcome \in {"ok_free", "ok_paid", "fail_paid", "throw"} :
          SwResearchDone(p, outcome)
    \/ \E p \in Procs, action \in {"PROCEED", "ABORT", "CALL_MORE_TOOLS"} : SwReflect(p, action)
    \/ \E p \in Procs, swapped \in BOOLEAN : SwExec(p, swapped)
    \/ \E p \in Procs, created \in BOOLEAN : PpCreate(p, created)
    \/ \E k \in Keys, w \in Wallets :
          \E signature \in Signatures(buildCartMandate(intents[k], now).message)
                              \cup {NoSignature} :
              RequestApproval(k[1], k[2], w, signature)
    \/ \E k \in Keys : SimulateAbort(k[1], k[2])

Spec == Init /\ [][Next]_vars

\* The timer of main.ts (setInterval) keeps entering tick.
Fairness == WF_vars(\E p \in Procs, d \in Docs : TickStart(p, d))

SpecLive == Spec /\ Fairness


(***************************************************************************)
(* evaluatePolicy on its own: one PolicyContext is given and evaluated.    *)
(***************************************************************************)
PolicyCommands ==
    {parseUserCommand(RawLines[l]) : l \in Parseable}
    \cup {TreasurySwap(300, 50, 200), PrivatePayout(200, "0xAb", "tomorrow"),
          PayVendor("ACME", 200, "0xAb", 0)}

PolicyToolPlans ==
    {<<>>, <<Tool("vendor-risk", VendorRiskPrice)>>,
     <<Tool("vendor-risk", VendorRiskPrice), Tool("deep-scan", 10)>>}

PolicyInputs ==
    {[config |-> DefaultConfig, nowMin |-> t,
      context |-> PolicyContext(c, e, sp, dl, tools)] :
        t \in {0, 7}, c \in PolicyCommands, e \in {0, 75, 150, 250},
        sp \in {0, 50, 150}, dl \in {0, 1950}, tools \in PolicyToolPlans}

PolicyEval ==
    /\ pout = "NONE"
    /\ pout' = evaluatePolicy(pin.config, pin.context, pin.nowMin)
    /\ UNCHANGED pin
    /\ UNCHANGED orchVars

InitPolicy ==
    /\ world = [docs |-> {}, lines |-> {}, overlap |-> FALSE, requests |-> {},
                clock |-> FALSE, faults |-> FALSE, classifier |-> FALSE, sink |-> TRUE]
    /\ agentMode = "none"
    /\ config = DefaultConfig
    /\ docLines = {}
    /\ InitStore
    /\ pin \in PolicyInputs
    /\ pout = "NONE"

NextPolicy == PolicyEval

SpecPolicy == InitPolicy /\ [][NextPolicy]_vars


(***************************************************************************)
(* The mandate functions on their own: a stored intent is given, a cart is *)
(* built from it at two moments, and a returned signature is verified      *)
(* against the first cart.                                                 *)
(***************************************************************************)
\* intents as ingestDocCommands stores them: createdAt is nowIso() of the ingestion
MandateIntents ==
    {buildIntentMandate(parseUserCommand(RawLines[l]),
                        chooseToolPlan(parseUserCommand(RawLines[l])),
                        IntentCeiling(DefaultConfig, parseUserCommand(RawLines[l])), t) :
        l \in {"l1", "l3", "l4", "l7"}, t \in {0, 3}}

\* expectedSigner: the wallet session's address as the caller passes it, or none
ExpectedSigners == {"", "0xAb", "0xAB", "0xCd"}

MandateInputs ==
    {[intent |-> i, first |-> t1, second |-> t2, by |-> s, overCart |-> o,
      expectedSigner |-> e] :
        i \in MandateIntents, t1 \in {3, 4}, t2 \in {4, 9, DayMin}, s \in Signers,
        o \in BOOLEAN, e \in ExpectedSigners}

NoMandateOutput ==
    [stage |-> "given", first |-> buildCartMandate(NoIntent, 0),
     second |-> buildCartMandate(NoIntent, 0),
     verification |-> [valid |-> FALSE, signerAddress |-> NoField]]

\* requestApproval's call of buildCartMandate, made at two moments
MandateBuild ==
    /\ pout.stage = "given"
    /\ pout' = [pout EXCEPT !.stage = "built",
                            !.first = buildCartMandate(pin.intent, pin.first),
                            !.second = buildCartMandate(pin.intent, pin.second)]
    /\ UNCHANGED pin
    /\ UNCHANGED orchVars

\* the signature handed to the verification
GivenSignature ==
    [by |-> pin.by, over |-> IF pin.overCart THEN pout.first.message ELSE NoSignature.over]

\* requestApproval's call of verifyAuthorizationSignature
MandateVerify ==
    /\ pout.stage = "built"
    /\ pout' = [pout EXCEPT !.stage = "verified",
                            !.verification =
                               verifyAuthorizationSignature(pout.first, GivenSignature,
                                                            pin.expectedSigner)]
    /\ UNCHANGED pin
    /\ UNCHANGED orchVars

InitMandate ==
    /\ world = [docs |-> {}, lines |-> {}, overlap |-> FALSE, requests |-> {},
                clock |-> FALSE, faults |-> FALSE, classifier |-> FALSE, sink |-> TRUE]
    /\ agentMode = "none"
    /\ config = DefaultConfig
    /\ docLines = {}
    /\ InitStore
    /\ pin \in MandateInputs
    /\ pout = NoMandateOutput

NextMandate == MandateBuild \/ MandateVerify

SpecMandate == InitMandate /\ [][NextMandate]_vars


(***************************************************************************)
(* x402Fetch on its own (src/unnamed/part_010): one call with a budget and *)
(* an expected price, against an endpoint that answers each attempt as it  *)
(* likes.  pin holds the options of the call, pout the position of the     *)
(* call and what it has done so far.                                       *)
(***************************************************************************)
\* base units of USDC (6 decimals) in one hundredth of a USDC
UnitsPerHundredth == 10000

\* paymentRequiredToUsdc: accepts[0].amount, in base units, as a USDC number
paymentRequiredToUsdc(amount) ==
    IF amount = NoNum THEN 0 ELSE amount \div UnitsPerHundredth

\* options.expectedPriceUsdc ?? paymentRequiredToUsdc(paymentRequired)
requiredCostUsdc(expectedPriceUsdc, amount) ==
    IF expectedPriceUsdc # NoNum THEN expectedPriceUsdc ELSE paymentRequiredToUsdc(amount)

\* Math.pow(2, attempt - 1) * 1000 ms, in seconds
delayMs(attempt) == 2 ^ (attempt - 1)

\* amounts an endpoint may quote in its challenge, in base units
Quotes == {100000, 500000}

\* how the endpoint (or the transport, or the wallet) may answer the first request of
\* an attempt, and the request resubmitted with the payment artifact
FirstAnswers ==
    {[kind |-> "error", status |-> 0, amount |-> NoNum],
     [kind |-> "status", status |-> 200, amount |-> NoNum],
     [kind |-> "status", status |-> 500, amount |-> NoNum]}
    \cup {[kind |-> "challenge", status |-> 402, amount |-> a] : a \in Quotes}

PaidAnswers ==
    {[kind |-> "error", status |-> 0, amount |-> NoNum],
     [kind |-> "status", status |-> 200, amount |-> NoNum],
     [kind |-> "status", status |-> 500, amount |-> NoNum]}

X402Inputs ==
    {[budgetUsdc |-> b, expectedPriceUsdc |-> e] : b \in {10, 25, 60}, e \in {NoNum, 10, 25}}

NoX402Receipt ==
    [initialStatus |-> 0, paymentAttempted |-> FALSE, retryStatus |-> 0, costUsdc |-> 0]

\* stage: call (an attempt's first request is out), resubmit (the request with the
\* payment artifact is out), backoff (the timer between attempts runs), returned,
\* raised.  errors: the error of each failed attempt; signed: the amounts of the
\* payment artifacts signed; delays: the backoff timers set.
X402Start ==
    [stage |-> "call", attempt |-> 1, errors |-> <<>>, signed |-> <<>>, delays |-> <<>>,
     paymentRequired |-> NoNum, receipt |-> NoX402Receipt]

\* the catch block of x402Fetch and the end of its loop
X402Caught(run, error) ==
    LET run1 == [run EXCEPT !.errors = Append(@, error), !.paymentRequired = NoNum]
    IN IF x402Retry(run.attempt)
       THEN [run1 EXCEPT !.stage = "backoff", !.delays = Append(@, delayMs(run.attempt))]
       ELSE [run1 EXCEPT !.stage = "raised"]

\* x402FetchAttempt up to the answer to its first request: an answer that is no
\* challenge is the result; a challenge runs the onPaymentRequired hook, which
\* throws when the required cost is over the budget; otherwise the client signs a
\* payment artifact for the amount of the challenge and resubmits
X402Call(answer) ==
    /\ pout.stage = "call"
    /\ answer \in FirstAnswers
    /\ pout' = CASE answer.kind = "error" -> X402Caught(pout, "transport")
                 [] answer.kind = "status" ->
                       [pout EXCEPT !.stage = "returned",
                                    !.receipt = [initialStatus |-> answer.status,
                                                 paymentAttempted |-> FALSE,
                                                 retryStatus |-> answer.status,
                                                 costUsdc |-> 0]]
                 [] OTHER ->
                       IF requiredCostUsdc(pin.expectedPriceUsdc, answer.amount)
                             > pin.budgetUsdc
                       THEN X402Caught(pout, "budget")
                       ELSE [pout EXCEPT !.stage = "resubmit",
                                         !.paymentRequired = answer.amount,
                                         !.signed = Append(@, answer.amount)]
    /\ UNCHANGED pin
    /\ UNCHANGED orchVars

\* x402FetchAttempt from the answer to the resubmitted request to its return
X402Resubmit(answer) ==
    /\ pout.stage = "resubmit"
    /\ answer \in PaidAnswers
    /\ pout' = IF answer.kind = "error" THEN X402Caught(pout, "transport")
               ELSE [pout EXCEPT !.stage = "returned",
                                 !.receipt = [initialStatus |-> 402,
                                              paymentAttempted |-> TRUE,
                                              retryStatus |-> answer.status,
                                              costUsdc |-> requiredCostUsdc(
                                                              pin.expectedPriceUsdc,
                                                              pout.paymentRequired)]]
    /\ UNCHANGED pin
    /\ UNCHANGED orchVars

\* x402Fetch: the backoff timer fired, the next attempt's first request goes out
X402Backoff ==
    /\ pout.stage = "backoff"
    /\ pout' = [pout EXCEPT !.stage = "call", !.attempt = @ + 1]
    /\ UNCHANGED pin
    /\ UNCHANGED orchVars

InitX402 ==
    /\ world = [docs |-> {}, lines |-> {}, overlap |-> FALSE, requests |-> {},
                clock |-> FALSE, faults |-> FALSE, classifier |-> FALSE, sink |-> TRUE]
    /\ agentMode = "none"
    /\ config = DefaultConfig
    /\ docLines = {}
    /\ InitStore
    /\ pin \in X402Inputs
    /\ pout = X402Start

NextX402 ==
    \/ \E answer \in FirstAnswers : X402Call(answer)
    \/ \E answer \in PaidAnswers : X402Resubmit(answer)
    \/ X402Backoff

SpecX402 == InitX402 /\ [][NextX402]_vars


(***************************************************************************)
(* The recurring schedule on its own: rules have been registered with the  *)
(* scheduler (addRule), and ticks of one scope run with a moving clock.    *)
(***************************************************************************)
RuleLists ==
    {<<RecurringRule("r1", f, t, e)>> :
        f \in {"daily", "weekly", "monthly"}, t \in {0, DayMin}, e \in BOOLEAN}
    \cup {<<RecurringRule("r1", "daily", t1, e1), RecurringRule("r2", "weekly", t2, TRUE)>> :
             t1 \in {0, DayMin}, t2 \in {0, DayMin}, e1 \in BOOLEAN}

InitScheduler ==
    /\ \E sink \in BOOLEAN :
          world = [docs |-> {"docA"}, lines |-> {}, overlap |-> FALSE, requests |-> {},
                   clock |-> TRUE, faults |-> FALSE, classifier |-> FALSE, sink |-> sink]
    /\ agentMode = "none"
    /\ config = DefaultConfig
    /\ docLines = {}
    /\ InitTables
    /\ rules \in RuleLists
    /\ pin = NoPolicyInput
    /\ pout = "NONE"

NextScheduler ==
    \/ AdvanceClock
    \/ \E p \in Procs : TickStart(p, "docA")
    \/ \E p \in Procs : Ingest(p)
    \/ \E p \in Procs : ExecNext(p)
    \/ \E p \in Procs : PvTool(p, "ok_paid")
    \/ \E p \in Procs : PvSettle(p, TRUE)
    \/ \E p \in Procs : SchedulerCheck(p)
    \/ \E p \in Procs : SchedulerInject(p, TRUE)

SpecScheduler == InitScheduler /\ [][NextScheduler]_vars


(***************************************************************************)
(* Properties.                                                             *)
(***************************************************************************)
Exists(k) == commands[k].status # "NONE"

\* C1: once a command's status is DONE, ABORTED or FAILED, no operation (tick,
\* requestApproval, simulateAbort, conditional-queue advance) changes it again.
C1_TerminalStatusIsFinal ==
    [][\A k \in Keys : commands[k].status \in Terminal
                          => commands'[k].status = commands[k].status]_vars

\* the per-command ceiling the policy documents: MAX_TOTAL when the command declares
\* one, the global per-command default otherwise
EffectiveCeiling(k) ==
    IF commands[k].parsed.maxTotalUsdc # NoNum THEN commands[k].parsed.maxTotalUsdc
    ELSE config.X402_MAX_PER_CMD_USDC

C3_DailySpendWithinCeiling ==
    \A d \in Docs :
        getDailySpend(ledger, d, startOfUtcDay(now)) <= config.X402_DAILY_LIMIT_USDC

\* executeApprovedCommands takes up the next command of its list in this step
PicksUp(p) ==
    /\ tick[p].pc = "approved"
    /\ tick[p].todo # <<>>
    /\ tick'[p] # tick[p]

\* C4: when executeApprovedCommands picks up an APPROVED command whose stored cart
\* mandate has an expiresAt earlier than the pickup time, the command becomes ABORTED
\* with reason EXPIRED_MANDATE, an ABORT receipt is added, and no tool call or
\* settlement is made for it.
C4_ExpiredMandateAborts ==
    [][\A p \in Procs :
          (/\ PicksUp(p)
           /\ commands[CurKey(tick[p])].status = "APPROVED"
           /\ carts[CurKey(tick[p])].createdAt # -1
           /\ carts[CurKey(tick[p])].message.expiresAt < now)
          => LET k == CurKey(tick[p])
             IN /\ commands'[k].status = "ABORTED"
                /\ commands'[k].lastError = "EXPIRED_MANDATE"
                /\ receipts'[k] = Append(receipts[k], Receipt("ABORT", "EXPIRED_MANDATE"))
                /\ toolCalls'[k] = toolCalls[k]
                /\ settlements'[k] = settlements[k]]_vars

\* C5: for one scope at most one tick is in progress at any time.
C5_OneTickPerScope ==
    \A p, q \in Procs :
        (p # q /\ tick[p].pc # "idle" /\ tick[q].pc # "idle")
           => tick[p].docId # tick[q].docId


\* two parsed commands say the same thing: the same variant, equal numbers, and equal
\* words up to letter case
SameCommandText(a, b) ==
    /\ a.kind = b.kind
    /\ ToLowerCase(a.vendor) = ToLowerCase(b.vendor)
    /\ a.amountUsdc = b.amountUsdc
    /\ ToLowerCase(a.to) = ToLowerCase(b.to)
    /\ a.maxTotalUsdc = b.maxTotalUsdc
    /\ a.slippageBps = b.slippageBps
    /\ a.maxSpendUsdc = b.maxSpendUsdc
    /\ a.unlockAt = b.unlockAt
    /\ a.frequency = b.frequency

\* a tick leaves ingestDocCommands in this step
Ingests(p) == tick[p].pc = "ingest" /\ tick'[p].pc # "ingest"

Ran(k) ==
    \/ commands[k].status = "EXECUTING"
    \/ toolCalls[k] > 0 \/ ledger[k] # <<>>
    \/ \E m \in payMandates : m[1] = k
    \/ settlements[k] > 0 \/ swaps[k] > 0
    \/ jobs[k].status # "NONE"
    \/ \E i \in 1..Len(receipts[k]) : receipts[k][i].kind \in {"TOOL", "AGENT_PLAN", "DEFI"}

\* requestApproval stored a cart mandate after the key that signed the cart's message
\* was the key of the expected signer
Authorized(k) ==
    /\ carts[k].createdAt # -1
    /\ \E s \in sigLog[k] :
          s.stored /\ s.overCart /\ ToLowerCase(s.by) = ToLowerCase(s.wallet)

\* C7: a command for which requiresApproval was true at ingestion never reaches
\* EXECUTING, and no tool payment or settlement is made for it, unless requestApproval
\* earlier recovered from the cart-mandate signature a signer equal to the expected
\* signer and stored the signed cart mandate.
C7_ApprovalGatesExecution ==
    \A k \in Keys : (needsApproval[k] /\ Ran(k)) => Authorized(k)

\* a gated command was settled, and a signature by a foreign key had been turned away
C7_Witness ==
    \E k \in Keys :
        /\ needsApproval[k] /\ settlements[k] > 0 /\ toolCalls[k] > 0
        /\ \E s \in sigLog[k] : ~s.stored

Rank(status) ==
    CASE status = "NEW" -> 1
      [] status = "INTENT_CREATED" -> 2
      [] status = "AWAITING_APPROVAL" -> 3
      [] status = "APPROVED" -> 4
      [] status = "EXECUTING" -> 5
      [] OTHER -> 6

\* C8: command status only moves forward in the order NEW, INTENT_CREATED,
\* AWAITING_APPROVAL, APPROVED, EXECUTING, then one of DONE/ABORTED/FAILED; no
\* operation moves a command to an earlier status and none sets it back to NEW.
C8_StatusMovesForward ==
    [][\A k \in Keys : Exists(k)
          => /\ Rank(commands'[k].status) >= Rank(commands[k].status)
             /\ commands'[k].status # "NEW"]_vars


\* the rules of the policy, numbered in the documented order, each stated on its own
RuleFails(i, cfg, context, nowMin) ==
    LET command == context.command
        ceiling == perCmdLimit(cfg, command)
    IN CASE i = 1 -> \E t \in Range(context.selectedTools) :
                        t.toolName \notin cfg.x402ToolAllowlist
         [] i = 2 -> context.estimatedToolCostUsdc > ceiling
         [] i = 3 -> context.commandSpendUsdc + context.estimatedToolCostUsdc > ceiling
         [] i = 4 -> context.dailySpendUsdc + context.estimatedToolCostUsdc
                        > cfg.X402_DAILY_LIMIT_USDC
         [] i = 5 -> command.kind = "TREASURY_SWAP"
                        /\ command.slippageBps > PolicyMaxSlippageBps
         [] i = 6 -> command.kind = "TREASURY_SWAP"
                        /\ command.amountUsdc > command.maxSpendUsdc
         [] i = 7 -> command.kind = "PRIVATE_PAYOUT"
                        /\ (DateParse(command.unlockAt) = -1
                            \/ DateParse(command.unlockAt) <= nowMin)

RuleCode ==
    <<"TOOL_NOT_ALLOWLISTED", "OVER_CMD_BUDGET", "SPEND_LIMIT_REACHED", "DAILY_LIMIT_REACHED",
      "SLIPPAGE_TOO_HIGH", "MAX_SPEND_EXCEEDED", "INVALID_UNLOCK_TIME">>

\* C9: evaluatePolicy checks its rules in the fixed order allowlist, estimate over the
\* per-command ceiling, spend plus estimate over that ceiling, daily spend plus
\* estimate over the daily ceiling, then the variant rules; it returns the reason
\* code of the first rule that fails and OK only when every rule passes.
C9_FirstFailingRuleWins ==
    pout # "NONE" =>
        LET failing == {i \in 1..7 : RuleFails(i, pin.config, pin.context, pin.nowMin)}
        IN /\ (failing = {}) <=> (pout = "OK")
           /\ \A i \in failing : (\A j \in failing : i <= j) => pout = RuleCode[i]

\* a context that breaks the allowlist rule and the daily rule at once was evaluated
C9_Witness ==
    /\ pout = "TOOL_NOT_ALLOWLISTED"
    /\ RuleFails(4, pin.config, pin.context, pin.nowMin)
    /\ RuleFails(3, pin.config, pin.context, pin.nowMin)

\* the command was turned away by the slippage rule
SlippageRejected(k) ==
    /\ commands[k].status = "ABORTED"
    /\ commands[k].lastError = "SLIPPAGE_TOO_HIGH"

\* C10: a TREASURY_SWAP is rejected with SLIPPAGE_TOO_HIGH exactly when its slippage
\* is greater than 200 basis points; a swap rejected this way ends ABORTED and no
\* tool call, quote or swap is issued for it.
C10_SlippageCeilingIs200 ==
    \A k \in Keys :
        (Exists(k) /\ commands[k].parsed.kind = "TREASURY_SWAP")
           => /\ SlippageRejected(k) => commands[k].parsed.slippageBps > ReceiptMaxSlippageBps
              /\ SlippageRejected(k) => toolCalls[k] = 0 /\ swaps[k] = 0
              /\ (commands[k].parsed.slippageBps > ReceiptMaxSlippageBps
                  /\ commands[k].status \in Terminal) => SlippageRejected(k)

\* the unlock time of a payout is not strictly after nowMin
UnlockNotAhead(parsed, nowMin) ==
    /\ parsed.kind = "PRIVATE_PAYOUT"
    /\ (DateParse(parsed.unlockAt) = -1 \/ DateParse(parsed.unlockAt) <= nowMin)

\* C11: a PRIVATE_PAYOUT whose unlock time is not strictly in the future is set to
\* ABORTED with INVALID_UNLOCK_TIME by the ingestion that first sees it, before any
\* approval is requested and before any execution step starts, whatever its amount.
C11_InvalidUnlockAbortsAtIngestion ==
    [][\A p \in Procs, k \in Keys :
          (Ingests(p) /\ ~Exists(k) /\ commands'[k].status # "NONE"
             /\ UnlockNotAhead(commands'[k].parsed, now))
          => /\ commands'[k].status = "ABORTED"
             /\ commands'[k].lastError = "INVALID_UNLOCK_TIME"]_vars

\* the reason codes of evaluatePolicy
PolicyCodes == {RuleCode[i] : i \in 1..7}

\* the trail of the command holds an abort receipt of the Policy Engine
PolicyDenied(k) ==
    \E i \in 1..Len(receipts[k]) :
        receipts[k][i].kind = "ABORT" /\ receipts[k][i].code \in PolicyCodes

\* C12: a PAY_VENDOR command denied by the Policy Engine ends ABORTED with the reason
\* code of the denial, no paid tool call and no settlement is made for it, and no
\* later tick picks it up for execution again.
C12_PolicyDenialIsFinal ==
    /\ [](\A k \in Keys :
             (commands[k].parsed.kind = "PAY_VENDOR" /\ PolicyDenied(k))
             => /\ commands[k].status = "ABORTED"
                /\ commands[k].lastError \in PolicyCodes
                /\ toolCalls[k] = 0 /\ ledger[k] = <<>> /\ settlements[k] = 0)
    /\ [][\A p \in Procs :
             PicksUp(p) => ~(commands[CurKey(tick[p])].parsed.kind = "PAY_VENDOR"
                             /\ PolicyDenied(CurKey(tick[p])))]_vars

\* number of receipts of one kind in the trail of a command
CountKind(k, kind) ==
    Cardinality({i \in 1..Len(receipts[k]) : receipts[k][i].kind = kind})

\* the tool plan of a PAY_VENDOR command when no model is asked for one
PlannedTools(k) ==
    IF agentMode = "none" THEN chooseToolPlan(commands[k].parsed)
    ELSE fallbackPlan(commands[k].parsed, budgetCap(config, commands[k].parsed))

\* C13: a PAY_VENDOR command whose planned tools all answered after a payment (no tool
\* fails or answers unpaid, the plan is the rule-based one) ends DONE with a ledger
\* sum equal to the sum of the planned tool prices and with exactly one SETTLEMENT
\* receipt in its trail, also when it went through requestApproval first.
C13_DoneHasOneSettlementReceipt ==
    \A k \in Keys :
        (/\ commands[k].parsed.kind = "PAY_VENDOR"
         /\ commands[k].status = "DONE"
         /\ ~world.faults /\ agentMode # "llm")
        => /\ getCommandSpend(ledger, k) = PlanCost(PlannedTools(k))
           /\ CountKind(k, "SETTLEMENT") = 1

\* position of a job status in the order PENDING, SUBMITTED, DECRYPTED
JobRank(status) ==
    CASE status = "NONE" -> 0
      [] status = "PENDING" -> 1
      [] status = "SUBMITTED" -> 2
      [] OTHER -> 3

\* the unlock time of the stored job has been reached
Due(k) == DateParse(jobs[k].unlockAt) # -1 /\ DateParse(jobs[k].unlockAt) <= now

QueueAdvance(p) ==
    /\ tick[p].pc = "approved"
    /\ tick[p].todo = <<>>
    /\ tick'[p] # tick[p]

\* C15: while the current time is before a job's unlock time every advance of its
\* scope leaves the job PENDING and makes no submission call; once the unlock time has
\* passed, the next advance hands the payload of a PENDING job to the network (the
\* job is SUBMITTED when the call returns), and a job already handed over is not
\* handed over again.
C15_DueJobIsSubmittedOnce ==
    [][\A p \in Procs, k \in Keys :
          (QueueAdvance(p) /\ tick[p].docId = k[1] /\ jobs[k].status = "PENDING")
          => IF Due(k)
             THEN tick'[p].pc = "job_io" \/ jobs'[k].status = "SUBMITTED"
             ELSE tick'[p].pc # "job_io" /\ jobs'[k] = jobs[k]]_vars

\* the address recoverTypedDataAddress gives for the cart and the signature verified
RecoveredSigner == recoverTypedDataAddress(pout.first.message, GivenSignature)

\* C16: verifyAuthorizationSignature, given an expected signer, returns valid=false
\* whenever the signer recovered from the cart mandate and the signature differs from
\* it, letter case ignored, and valid=true with the recovered address when the two are
\* equal.
C16_VerificationComparesSigners ==
    (pout.stage = "verified" /\ pin.expectedSigner # "")
    => /\ pout.verification.signerAddress = RecoveredSigner
       /\ pout.verification.valid
             <=> (ToLowerCase(RecoveredSigner) = ToLowerCase(pin.expectedSigner))

\* a signature over the cart by the expected key, whose address the wallet session
\* writes in another letter case, was accepted
C16_Witness ==
    /\ pout.stage = "verified"
    /\ pin.overCart /\ pin.by = "0xAB" /\ pin.expectedSigner = "0xAb"
    /\ pout.verification.valid
    /\ pout.verification.signerAddress = "0xAB"

\* C17: buildCartMandate applied twice to the same intent mandate, at different
\* wall-clock times, returns the same expiresAt, equal to the intent's createdAt plus
\* 5 minutes.
C17_CartExpiryIsDeterministic ==
    (pout.stage # "given" /\ pin.first # pin.second)
    => /\ pout.first.expiresAt = pout.second.expiresAt
       /\ pout.first.expiresAt = pin.intent.createdAt + CartWindowMin
       /\ pout.first.message.expiresAt = pout.second.message.expiresAt

\* the same intent gave two carts built a day apart
C17_Witness ==
    /\ pout.stage = "built"
    /\ pin.second = DayMin
    /\ pout.second.createdAt # pout.first.createdAt
    /\ pout.second.expiresAt = pin.intent.createdAt + CartWindowMin

\* number of receipts in a trail that record an outcome with its code: the ABORT
\* receipts and the receipts of a completed payout, swap or encrypted job
OutcomeReceipts(trail) ==
    Cardinality({i \in 1..Len(trail) :
                    \/ trail[i].kind = "ABORT"
                    \/ trail[i].code \in {"PAYOUT_EXECUTED", "SWAP", "ENCRYPTED_TX_DECRYPTED"}})

\* C18: every command that reaches DONE, ABORTED or FAILED gets for that outcome
\* exactly one audit line and exactly one structured receipt carrying a reason code, on
\* every path (policy abort of each command kind, reflection abort, expired mandate,
\* execution error, simulateAbort, completion of an encrypted job).
C18_OneLineAndOneReceiptPerOutcome ==
    [][\A k \in Keys :
          (commands'[k].status \in Terminal /\ commands'[k].status # commands[k].status)
          => /\ Len(audit'[k]) = Len(audit[k]) + 1
             /\ OutcomeReceipts(receipts'[k]) = OutcomeReceipts(receipts[k]) + 1]_vars

\* tick p is inside executeCommand for command k and takes a step in which the
\* command becomes FAILED
ExecutionFails(p, k) ==
    /\ tick[p].pc \notin {"idle", "ingest", "scheduler"}
    /\ tick[p].todo # <<>>
    /\ CurKey(tick[p]) = k
    /\ tick'[p] # tick[p]
    /\ commands[k].status # "FAILED"
    /\ commands'[k].status = "FAILED"

\* C19: when the execution of one command raises an error only that command becomes
\* FAILED, and the tick goes on with the remaining APPROVED commands of its snapshot
\* (and from there to the encrypted jobs and the recurring check): it is back in the
\* loop of executeApprovedCommands, it has not ended, and it ends only after the
\* recurring check.
C19_ErrorsAreScopedToOneCommand ==
    [][\A p \in Procs :
          /\ \A k \in Keys :
                ExecutionFails(p, k)
                => /\ tick'[p] = NextCommand(tick[p])
                   /\ \A j \in Keys \ {k} : commands'[j] = commands[j]
          /\ (tick[p].pc \notin {"idle", "ingest", "scheduler"} /\ tick'[p].pc = "idle")
             => FALSE]_vars

\* sequence a is the beginning of sequence b
IsPrefix(a, b) == Len(a) <= Len(b) /\ SubSeq(b, 1, Len(a)) = a

\* C20: no operation updates or deletes an existing receipt or spend-ledger entry:
\* over every tick, approval and abort the receipts and the ledger entries of a
\* command only grow, and earlier entries keep their place and content.
C20_ReceiptsAndLedgerAreAppendOnly ==
    [][\A k \in Keys : /\ IsPrefix(receipts[k], receipts'[k])
                       /\ IsPrefix(ledger[k], ledger'[k])]_vars

\* a command approved through requestApproval was executed with paid tools and then
\* approved a second time: its trail holds both approval receipts around the others
C20_Witness ==
    \E k \in Keys :
        /\ Len(ledger[k]) >= 2
        /\ Len(receipts[k]) >= 4
        /\ receipts[k][1] = Receipt("SETTLEMENT", "AUTH_APPROVED")
        /\ receipts[k][Len(receipts[k])] = Receipt("SETTLEMENT", "AUTH_APPROVED")

\* C21: when an attempt inside x402Fetch fails because the required cost exceeds the
\* remaining budget, x402Fetch makes no further attempt: the budget-exceeded error is
\* raised after that attempt, without retry or backoff.
C21_BudgetExceededIsNotRetried ==
    \A i \in 1..Len(pout.errors) :
        pout.errors[i] = "budget" => (pout.attempt = i /\ pout.stage = "raised")

\* a challenge was answered whose required cost was over the budget
OverBudgetSeen == \E i \in 1..Len(pout.errors) : pout.errors[i] = "budget"

\* C22: if the endpoint answers with a payment challenge and the required cost is
\* greater than remainingBudget, x402Fetch fails with a budget-exceeded error without
\* signing or sending any payment artifact, and nothing is returned that the caller
\* would enter in the ledger.
C22_OverBudgetChallengeFailsUnpaid ==
    [][OverBudgetSeen' =>
          /\ pout'.signed = pout.signed
          /\ pout'.stage # "returned"
          /\ (pout'.stage = "raised" =>
                 pout'.errors[Len(pout'.errors)] = "budget")]_vars

\* C23: x402Fetch never pays a challenge whose quoted price is greater than
\* remainingBudget, also when the caller supplies an expected price that is lower than
\* the quoted price.
C23_QuotedPriceWithinBudget ==
    \A i \in 1..Len(pout.signed) :
        paymentRequiredToUsdc(pout.signed[i]) <= pin.budgetUsdc

\* tick p waits for an attempt of x402Fetch
InFetch(p) == tick[p].pc \in {"pv_tool", "pv_chain", "sw_research"}

AddedReceipts(k) ==
    {receipts'[k][i] : i \in (Len(receipts[k]) + 1)..Len(receipts'[k])}

\* a tool call of command k came back with a non-success response in this step
ToolCallFailed(k) ==
    /\ Len(x402Receipts'[k]) = Len(x402Receipts[k]) + 1
    /\ ~ResponseOk(x402Receipts'[k][Len(x402Receipts'[k])].retryStatus)

\* C26: if any tool call of a PAY_VENDOR command ends with a non-success response,
\* the command becomes FAILED with lastError set and an ABORT receipt, and the run
\* that made the call is over: the remaining planned tools are not called and no
\* settlement transfer is sent.
C26_FailedToolCallFailsCommand ==
    [][\A p \in Procs :
          LET k == CurKey(tick[p])
          IN (/\ tick[p].pc \in {"pv_tool", "pv_chain"}
              /\ tick'[p] # tick[p]
              /\ ToolCallFailed(k))
             => /\ commands'[k].status = "FAILED"
                /\ commands'[k].lastError # NULL
                /\ \E r \in AddedReceipts(k) : r.kind = "ABORT"
                /\ tick'[p].pc \in {"approved", "idle"}
                /\ settlements' = settlements]_vars

\* the number of ENCRYPTED receipts in a trail
EncryptedCount(trail) == Cardinality({i \in 1..Len(trail) : trail[i].kind = "ENCRYPTED"})

C29_AuditFailureKeepsOutcome ==
    \A k \in Keys :
        (/\ ~world.sink
         /\ settlements[k] > 0
         /\ \A p \in Procs : tick[p].todo = <<>> \/ CurKey(tick[p]) # k)
        => commands[k].status = "DONE"

\* C30: at ingestion a new command goes to AWAITING_APPROVAL exactly when its
\* principal amount is greater than max(AUTO_RUN_UNDER_USDC,
\* X402_REQUIRE_APPROVAL_ABOVE_USDC) and to APPROVED otherwise, and no later
\* operation moves an APPROVED command to AWAITING_APPROVAL.
C30_ApprovalIsDecidedAtIngestion ==
    [][\A k \in Keys :
          /\ (commands[k].status = "NONE" /\ commands'[k].status # "NONE") =>
                LET amount == commands'[k].parsed.amountUsdc
                    gated == /\ amount > config.AUTO_RUN_UNDER_USDC
                             /\ amount > config.X402_REQUIRE_APPROVAL_ABOVE_USDC
                IN commands'[k].status = IF gated THEN "AWAITING_APPROVAL" ELSE "APPROVED"
          /\ commands[k].status = "APPROVED" => commands'[k].status # "AWAITING_APPROVAL"
          /\ (commands[k].status # "NONE" /\ commands'[k].status = "AWAITING_APPROVAL")
                => commands[k].status = "AWAITING_APPROVAL"]_vars

\* one ingestion has stored a command above the threshold and one below it
C30_Witness ==
    \E k1, k2 \in Keys :
        /\ commands[k1].status = "AWAITING_APPROVAL"
        /\ commands[k1].parsed.amountUsdc > config.AUTO_RUN_UNDER_USDC
        /\ commands[k2].status = "APPROVED"
        /\ commands[k2].parsed.amountUsdc <= config.AUTO_RUN_UNDER_USDC
        /\ commands[k2].parsed.amountUsdc > config.X402_REQUIRE_APPROVAL_ABOVE_USDC

\* requestApproval turned a signature away for the command at some time
VerificationFailed(k) == \E s \in sigLog[k] : ~s.stored

\* the step is a call of requestApproval for the command
Requests(k) ==
    \E w \in Wallets :
        \E signature \in Signatures(buildCartMandate(intents[k], now).message)
                            \cup {NoSignature} :
            RequestApproval(k[1], k[2], w, signature)

\* C31: when the signature verification inside requestApproval fails, the command
\* becomes FAILED, the call stores no cart mandate and leaves the intent mandate as it
\* was, and from then on the command is never executed: it does not enter EXECUTING
\* and no tool is called, no settlement sent and no swap made for it.  When the
\* command or its intent does not exist the call changes nothing.
C31_FailedVerificationStopsCommand ==
    [][\A k \in WorldKeys :
          /\ (Requests(k) /\ (commands[k].status = "NONE" \/ intents[k].status = "NONE"))
                => UNCHANGED <<commands, intents, carts, receipts, ledger, audit, jobs,
                               payMandates, sigLog>>
          /\ (Requests(k) /\ VerificationFailed(k)' /\ commands'[k].status # "APPROVED")
                => /\ commands'[k].status = "FAILED"
                   /\ carts' = carts
                   /\ intents' = intents
          /\ VerificationFailed(k)
                => /\ commands'[k].status = "EXECUTING" => commands[k].status = "EXECUTING"
                   /\ toolCalls'[k] = toolCalls[k]
                   /\ settlements'[k] = settlements[k]
                   /\ swaps'[k] = swaps[k]]_vars

\* C32: a raw line that fails to compile creates no command record, and its
\* NEEDS_INFO audit line is written at most once however many ticks read the same
\* text again with the same error: a line once reported stays reported, every
\* NEEDS_INFO line written in a step belongs to a line first reported in that step,
\* and the step stores no row for such a line.
C32_ParseErrorReportedOnce ==
    [][/\ reported \subseteq reported'
       /\ needsInfo' >= needsInfo
       /\ needsInfo' - needsInfo <= Cardinality(reported' \ reported)
       /\ \A l \in reported' \ reported :
             /\ parseUserCommand(RawLines[l]) = ParseError
             /\ \A k \in Keys : commands'[k].rawCmd = l => commands'[k] = commands[k]
       /\ \A k \in Keys :
             commands'[k].status # "NONE" => commands'[k].parsed # ParseError]_vars

\* two ticks of one scope have both read a line that does not compile, and one
\* NEEDS_INFO line was written
C32_Witness ==
    /\ needsInfo = 1
    /\ \E l \in reported : l \in docLines /\ parseUserCommand(RawLines[l]) = ParseError
    /\ \E p, q \in Procs :
          /\ p # q /\ tick[p].docId = tick[q].docId
          /\ tick[p].pc \notin {"idle", "ingest"}
          /\ tick[q].pc \notin {"idle", "ingest"}

\* the rules checkDuePayments has to act on: enabled, and nextRunAt not after now
DueRules == {i \in 1..Len(rules) : rules[i].enabled /\ rules[i].nextRunAt <= now}

\* C33: checkDuePayments emits exactly one command line for each enabled rule whose
\* nextRunAt is not after now and sets that rule's nextRunAt to a time strictly
\* after now; rules that are disabled or not yet due emit nothing and are left
\* unchanged.
C33_DueRulesEmitOneLineEach ==
    [][\A p \in Procs :
          (tick[p].pc = "scheduler" /\ tick'[p].pc # "scheduler") =>
             /\ Len(rules') = Len(rules)
             /\ Len(tick'[p].due) = Cardinality(DueRules)
             /\ \A i \in DueRules :
                   /\ rules'[i].nextRunAt > now
                   /\ \E j \in 1..Len(tick'[p].due) : tick'[p].due[j] = cmdText(rules[i])
             /\ \A i \in (1..Len(rules)) \ DueRules : rules'[i] = rules[i]]_vars

\* the tick has read the inbox and stored what was new in it
Ingested(p) == tick[p].pc = "ingest" /\ tick'[p].pc = "approved"

\* C34: each time a recurring rule comes due, the command line it emits is ingested
\* on a later tick as a new command record that gets executed; successive
\* recurrences of one rule are not collapsed into the first recurrence's command.
\* Hence, when a tick has read the inbox that holds the line of a rule's latest
\* recurrence, the store holds a command made from that line at or after the time
\* of that recurrence.
C34_EveryRecurrenceIsACommand ==
    [][\A p \in Procs, i \in 1..Len(rules) :
          (/\ Ingested(p)
           /\ rules[i].lastRunAt # NoNum
           /\ LineOf(cmdText(rules[i])) \in docLines)
          => \E k \in Keys :
                /\ k[1] = tick[p].docId
                /\ commands'[k].rawCmd = LineOf(cmdText(rules[i]))
                /\ intents'[k].createdAt >= rules[i].lastRunAt]_vars

\* C35: before every paid tool invocation through x402Fetch (planned tools, chained
\* additional tools and the swap price-check) a Payment Mandate for that command and
\* tool, recording the agreed price, has been saved: while a tick waits for a paid
\* call, the table holds the mandate of the tool being called.
C35_PaymentMandateBeforeEveryCall ==
    \A p \in Procs :
        /\ tick[p].pc = "pv_tool" =>
              <<CurKey(tick[p]), Head(tick[p].tools).toolName,
                Head(tick[p].tools).priceUsdc>> \in payMandates
        /\ tick[p].pc = "pv_chain" =>
              <<CurKey(tick[p]), Head(tick[p].extras).toolName,
                Head(tick[p].extras).priceUsdc>> \in payMandates
        /\ tick[p].pc = "sw_research" =>
              <<CurKey(tick[p]), "price-check", PriceCheckPrice>> \in payMandates

\* every call a tick waits for comes back, so every tick invocation returns, and the
\* ticks of every scope keep running through their whole body
TicksKeepRunning ==
    /\ \A p \in Procs : []<>(tick[p].pc = "idle")
    /\ \A d \in Docs :
          []<>(d \in world.docs => \E p \in Procs : tick[p].pc = "scheduler"
                                                      /\ tick[p].docId = d)

\* no command waits for execution or is in execution
Settled == \A k \in Keys : commands[k].status \notin {"APPROVED", "EXECUTING"}

\* C36: under repeated ticks and external calls that eventually return, every
\* ingested command of every kind that becomes APPROVED eventually reaches DONE,
\* ABORTED or FAILED; none stays in EXECUTING forever.  The lines and the requests
\* of a deployment are finitely many, so from some time on no command is APPROVED or
\* EXECUTING any more.
C36_ApprovedCommandsTerminate == TicksKeepRunning => <>[]Settled

\* the calls of the planned tool toolName that returned for command k: each leaves
\* a TOOL receipt, a chained call leaves none
PaidCalls(k, toolName) ==
    Cardinality({i \in 1..Len(receipts[k]) : receipts[k][i] = Receipt("TOOL", toolName)})

\* C37: across any interleaving of tick invocations, requestApproval calls and
\* simulateAbort calls on one scope, the settlement transfer of a command is issued
\* at most once, and each of its planned tool payments is made at most once.
C37_SettlementAndToolsPaidOnce ==
    \A k \in Keys :
        /\ settlements[k] <= 1
        /\ \A i \in 1..Len(intents[k].toolPlan) :
              PaidCalls(k, intents[k].toolPlan[i].toolName) <= 1

\* C38: a tool requested by the reflection step is called only if its name is in the
\* allowlist, and the call is made with the budget that remains of the command's
\* ceiling after all earlier calls of the command, which the chained calls never
\* overdraw.
C38_ChainedToolsWithinAllowlistAndBudget ==
    \A p \in Procs :
        tick[p].pc = "pv_chain" =>
            LET k == CurKey(tick[p])
            IN /\ Head(tick[p].extras).toolName \in config.x402ToolAllowlist
               /\ tick[p].remainingBudget >= 0
               /\ tick[p].remainingBudget
                     = budgetCap(config, commands[k].parsed) - getCommandSpend(ledger, k)

\* C39: when the price-check call of a TREASURY_SWAP ends without a price (the call
\* failed, was unavailable or answered with an error), the command is neither aborted
\* nor failed by that: its status stays as it was and the swap call is next.
C39_FailedResearchDoesNotBlockSwap ==
    [][\A p \in Procs :
          (/\ tick[p].pc = "sw_research"
           /\ tick'[p].pc # "sw_research"
           /\ ~tick'[p].priced)
          => /\ tick'[p].pc = "sw_exec"
             /\ commands'[CurKey(tick[p])].status = commands[CurKey(tick[p])].status]_vars

\* a swap is DONE although its price-check call never returned a receipt
C39_Witness ==
    \E k \in Keys :
        /\ commands[k].status = "DONE"
        /\ swaps[k] >= 1
        /\ toolCalls[k] >= 1
        /\ x402Receipts[k] = <<>>

\* C40: a step of tick(scope A) changes no command status, encrypted job, receipt or
\* ledger entry of a command that belongs to another scope B.
C40_TickKeepsToItsScope ==
    [][\A p \in Procs :
          tick'[p] # tick[p] =>
              LET docId == IF tick[p].pc = "idle" THEN tick'[p].docId ELSE tick[p].docId
              IN \A k \in Keys :
                    k[1] # docId =>
                        /\ commands'[k].status = commands[k].status
                        /\ jobs'[k] = jobs[k]
                        /\ receipts'[k] = receipts[k]
                        /\ x402Receipts'[k] = x402Receipts[k]
                        /\ ledger'[k] = ledger[k]]_vars

\* a tick of one scope is at work on a command while another scope holds the same
\* command with its job and receipts, in another status
C40_Witness ==
    \E p \in Procs, kA \in Keys, kB \in Keys :
        /\ tick[p].docId = kA[1]
        /\ tick[p].pc \notin {"idle", "ingest"}
        /\ kB[1] # kA[1]
        /\ kB[2] = kA[2]
        /\ jobs[kB].status # "NONE"
        /\ receipts[kB] # <<>>
        /\ commands[kA].status \notin {"NONE", commands[kB].status}

====
